---- MODULE Spec2Model ----
(***************************************************************************)
(* A model of three parts of the Luau analysis library:                    *)
(*   - the cloner of type graphs            (Analysis/src/Clone.cpp)       *)
(*   - the build orchestrator ("Frontend")  (Analysis/include/Luau/        *)
(*                                           Frontend.h)                   *)
(*   - the post-inference validator         (Analysis/src/TypeChecker2.cpp)*)
(* Each part has its own specifications (SpecClone; SpecFrontend and       *)
(* SpecQueue; SpecCall, SpecVisit, SpecLookup, SpecNode, SpecScope,        *)
(* SpecFamily and SpecWalk for the validator); the variables of the other  *)
(* parts stay at their idle values.                                        *)
(***************************************************************************)
EXTENDS Integers, Sequences, FiniteSets, TLC

VARIABLES
    \* ---- cloner ----
    types,          \* the source arena's type nodes: id -> node
    packs,          \* the source arena's type-pack nodes: id -> node
    FFlagLuauCloneCyclicUnions,          \* FFlag::LuauCloneCyclicUnions
    FFlagDebugLuauCopyBeforeNormalizing, \* FFlag::DebugLuauCopyBeforeNormalizing
    cloneState,     \* CloneState: seenTypes, seenTypePacks, recursionCount
    dest,           \* the destination TypeArena: the nodes added so far
    cloneCall       \* the last call of clone: its root, its result, what it did

VARIABLES
    \* ---- build orchestrator ----
    requires,       \* the files: module name -> the names its source requires
    sourceNodes,    \* Frontend::sourceNodes: module name -> SourceNode
    resolvers,      \* moduleResolver / moduleResolverForAutocomplete: the
                    \* module records stored, per view
    moduleQueue,    \* Frontend::moduleQueue
    batch,          \* the running checkQueuedModules call: its view, its
                    \* place, its build queue items
    lastOp,         \* the last call that returned, and what it returned
    calls           \* the calls made so far, where they are bounded

VARIABLES
    \* ---- validator ----
    call,           \* the AstExprCall under visitCall and what inference
                    \* recorded for it
    ast,            \* the module's root block
    lookup,         \* the property lookup under checkIndexTypeFromType
    astNode,        \* the statement or expression under visit, with what
                    \* inference recorded for its parts
    errors          \* module->errors: the diagnostics in the order appended

VARIABLE part       \* which part of the library the behaviour exercises

cloneVars == <<types, packs, FFlagLuauCloneCyclicUnions,
               FFlagDebugLuauCopyBeforeNormalizing, cloneState, dest, cloneCall>>

frontendVars ==
    <<requires, sourceNodes, resolvers, moduleQueue, batch, lastOp, calls>>

validatorVars == <<call, ast, lookup, astNode, errors>>

vars == <<part, cloneVars, frontendVars, validatorVars>>

----------------------------------------------------------------------------
(***************************************************************************)
(* Bounds of the model.                                                    *)
(***************************************************************************)
MaxTypes == 2       \* type nodes of the source arena
MaxPacks == 1       \* type-pack nodes of the source arena
MaxChildren == 2    \* props of a table, options of a union, head of a pack
MaxCloneCalls == 2  \* top-level calls of clone that share one CloneState
MaxModules == 3     \* source files the file resolver knows
MaxRequires == 3    \* require statements in all the files together
MaxQueued == 2      \* names queued for one checkQueuedModules call
MaxCalls == 2       \* calls of markDirty, check and checkQueuedModules that
                    \* a behaviour with a task runner is followed for
MaxArgs == 2        \* formal parameters of a function, arguments of a call
MaxStats == 2       \* statements of the module's root block
MaxComponents == 2  \* components of a normalized receiver that are not never
MaxTargets == 2     \* targets of an assignment, and values of one
MaxMetatables == 2  \* metatables the operands of a comparison may have
MaxPos == 3         \* positions of the source text a span begins or ends at
MaxScopes == 4      \* entries of module->scopes
MaxOptions == 2     \* options of a callee union, parts of a callee intersection
MaxFamilyArgs == 2  \* type arguments of a type-family instance
MaxPackArgs == 1    \* pack arguments of a type-family instance
MaxDecls == 2       \* function declarations around an expression
\* FInt::LuauTypeCloneRecursionLimit is a run-time setting (default 300); the
\* model runs it at a value that every acyclic graph of the bounds stays
\* under and that a runaway traversal reaches.
RecursionLimit == 4

TypeIds == 1..MaxTypes
PackIds == 1..MaxPacks

SeqsUpTo(S, n) == UNION {[1..k -> S] : k \in 0..n}

----------------------------------------------------------------------------
(***************************************************************************)
(* Identities.  A TypeId or TypePackId is a pointer: into the source arena *)
(* (Src), into the destination arena (Dst), or nullptr (Null).             *)
(***************************************************************************)
Null == <<"null", 0>>
Src(n) == <<"src", n>>
Dst(k) == <<"dst", k>>

----------------------------------------------------------------------------
(***************************************************************************)
(* The cloner.  clone(x, dest, cloneState) is computed on a record st that *)
(* threads what the C++ code reaches through references:                   *)
(*   seenTypes, seenTypePacks, recursionCount   the CloneState             *)
(*   destTypes, destPacks                       the destination arena      *)
(*   ret                                        the value just returned    *)
(* and the observation fields that the code does not have:                 *)
(*   activeT, activeP    the source nodes whose visit is running           *)
(*   reentered           the nodes whose visit was started while running   *)
(*   limitHit            whether the recursion limit was exceeded          *)
(*   maxDepth            the highest value recursionCount took             *)
(* A destination node is [kind, tys, tps, from]: its kind, the type and    *)
(* pack pointers it holds, and the source node it was added for.           *)
(***************************************************************************)
DestNode(kind, tys, tps, from) ==
    [kind |-> kind, tys |-> tys, tps |-> tps, from |-> from]

\* TypeArena::addType: the new node is appended, its identity returned in ret
AddType(st, node) ==
    [st EXCEPT !.destTypes = Append(st.destTypes, node),
               !.ret = Dst(Len(st.destTypes) + 1)]

\* TypeArena::addTypePack
AddTypePack(st, node) ==
    [st EXCEPT !.destPacks = Append(st.destPacks, node),
               !.ret = Dst(Len(st.destPacks) + 1)]

\* seenTypes[typeId] = cloned
SetSeenType(st, typeId, cloned) ==
    [st EXCEPT !.seenTypes[typeId] = cloned]

\* seenTypePacks[typePackId] = cloned
SetSeenPack(st, typePackId, cloned) ==
    [st EXCEPT !.seenTypePacks[typePackId] = cloned]

\* getMutable<T>(result)->... = ...: the children of an added node are filled in
FillType(st, result, tys, tps) ==
    [st EXCEPT !.destTypes[result[2]].tys = tys,
               !.destTypes[result[2]].tps = tps]

FillPack(st, result, tys, tps) ==
    [st EXCEPT !.destPacks[result[2]].tys = tys,
               !.destPacks[result[2]].tps = tps]

Max(a, b) == IF a >= b THEN a ELSE b

\* RecursionLimiter (Luau/RecursionCounter.h): the count is raised on entry
\* and the limit is exceeded when the raised count is above it
RecursionLimitExceeded(count) == count > RecursionLimit

\* what the cloner yields beyond the limit: an error node of the destination
SubstituteErrorType(st) ==
    LET s1 == AddType(st, DestNode("Error", <<>>, <<>>, 0))
    IN  [s1 EXCEPT !.limitHit = TRUE]

SubstituteErrorPack(st) ==
    LET s1 == AddTypePack(st, DestNode("ErrorPack", <<>>, <<>>, 0))
    IN  [s1 EXCEPT !.limitHit = TRUE]

RECURSIVE CloneType(_, _), ClonePack(_, _), CloneTypeSeq(_, _, _), ClonePackSeq(_, _, _)

\* for (TypeId ty : list) out.push_back(clone(ty, dest, cloneState));
CloneTypeSeq(ids, st, out) ==
    IF ids = <<>> THEN [st |-> st, out |-> out]
    ELSE LET s1 == CloneType(Head(ids), st)
         IN  CloneTypeSeq(Tail(ids), s1, Append(out, s1.ret))

ClonePackSeq(ids, st, out) ==
    IF ids = <<>> THEN [st |-> st, out |-> out]
    ELSE LET s1 == ClonePack(Head(ids), st)
         IN  ClonePackSeq(Tail(ids), s1, Append(out, s1.ret))

\* TypeCloner::defaultClone
TypeDefaultClone(typeId, st) ==
    LET s1 == AddType(st, DestNode(types[typeId].kind, <<>>, <<>>, typeId))
    IN  SetSeenType(s1, typeId, s1.ret)

\* TypeCloner::operator()(const Unifiable::Bound<TypeId>&)
CloneBound(typeId, st) ==
    LET s1 == CloneType(types[typeId].tys[1], st)
        s2 == IF FFlagDebugLuauCopyBeforeNormalizing
              THEN AddType(s1, DestNode("Bound", <<s1.ret>>, <<>>, typeId))
              ELSE s1
    IN  SetSeenType(s2, typeId, s2.ret)

\* TypeCloner::operator()(const FunctionType&)
CloneFunction(typeId, st) ==
    LET s1 == AddType(st, DestNode("Function", <<>>, <<>>, typeId))
        result == s1.ret
        s2 == SetSeenType(s1, typeId, result)
        s3 == ClonePack(types[typeId].tps[1], s2)
        argTypes == s3.ret
        s4 == ClonePack(types[typeId].tps[2], s3)
        retTypes == s4.ret
    IN  FillType(s4, result, <<>>, <<argTypes, retTypes>>)

\* TypeCloner::operator()(const TableType&); of a table with boundTo set
\* the first pointer is boundTo and the others are the props
CloneTable(typeId, st) ==
    IF ~FFlagDebugLuauCopyBeforeNormalizing /\ types[typeId].kind = "BoundTable"
    THEN LET s1 == CloneType(types[typeId].tys[1], st)
         IN  SetSeenType(s1, typeId, s1.ret)
    ELSE LET s1 == AddType(st, DestNode(types[typeId].kind, <<>>, <<>>, typeId))
             result == s1.ret
             s2 == SetSeenType(s1, typeId, result)
             props == CloneTypeSeq(types[typeId].tys, s2, <<>>)
         IN  FillType(props.st, result, props.out, <<>>)

\* TypeCloner::operator()(const UnionType&)
CloneUnion(typeId, st) ==
    IF FFlagLuauCloneCyclicUnions
    THEN LET s1 == AddType(st, DestNode("Free", <<>>, <<>>, typeId))
             result == s1.ret
             s2 == SetSeenType(s1, typeId, result)
             options == CloneTypeSeq(types[typeId].tys, s2, <<>>)
             s3 == [options.st EXCEPT !.destTypes[result[2]].kind = "Union"]
         IN  FillType(s3, result, options.out, <<>>)
    ELSE LET options == CloneTypeSeq(types[typeId].tys, st, <<>>)
             s1 == AddType(options.st, DestNode("Union", options.out, <<>>, typeId))
         IN  SetSeenType(s1, typeId, s1.ret)

\* Luau::visit(cloner, typeId->ty): the TypeCloner overload of the node's kind
VisitType(typeId, st) ==
    CASE types[typeId].kind = "Primitive" -> TypeDefaultClone(typeId, st)
      [] types[typeId].kind = "Bound"     -> CloneBound(typeId, st)
      [] types[typeId].kind = "Function"  -> CloneFunction(typeId, st)
      [] types[typeId].kind \in {"Table", "BoundTable"} -> CloneTable(typeId, st)
      [] types[typeId].kind = "Union"     -> CloneUnion(typeId, st)

\* TypePackCloner::defaultClone
PackDefaultClone(typePackId, st) ==
    LET s1 == AddTypePack(st, DestNode(packs[typePackId].kind, <<>>, <<>>, typePackId))
    IN  SetSeenPack(s1, typePackId, s1.ret)

\* TypePackCloner::operator()(const Unifiable::Bound<TypePackId>&)
CloneBoundPack(typePackId, st) ==
    LET s1 == ClonePack(packs[typePackId].tps[1], st)
        s2 == IF FFlagDebugLuauCopyBeforeNormalizing
              THEN AddTypePack(s1, DestNode("BoundPack", <<>>, <<s1.ret>>, typePackId))
              ELSE s1
    IN  SetSeenPack(s2, typePackId, s2.ret)

\* TypePackCloner::operator()(const VariadicTypePack&)
CloneVariadic(typePackId, st) ==
    LET s1 == CloneType(packs[typePackId].tys[1], st)
        s2 == AddTypePack(s1, DestNode("Variadic", <<s1.ret>>, <<>>, typePackId))
    IN  SetSeenPack(s2, typePackId, s2.ret)

\* TypePackCloner::operator()(const TypePack&)
CloneTypePack(typePackId, st) ==
    LET s1 == AddTypePack(st, DestNode("TypePack", <<>>, <<>>, typePackId))
        cloned == s1.ret
        s2 == SetSeenPack(s1, typePackId, cloned)
        head == CloneTypeSeq(packs[typePackId].tys, s2, <<>>)
        tail == ClonePackSeq(packs[typePackId].tps, head.st, <<>>)
    IN  FillPack(tail.st, cloned, head.out, tail.out)

\* Luau::visit(cloner, tp->ty): the TypePackCloner overload of the node's kind
VisitPack(typePackId, st) ==
    CASE packs[typePackId].kind = "GenericPack" -> PackDefaultClone(typePackId, st)
      [] packs[typePackId].kind = "BoundPack"   -> CloneBoundPack(typePackId, st)
      [] packs[typePackId].kind = "Variadic"    -> CloneVariadic(typePackId, st)
      [] packs[typePackId].kind = "TypePack"    -> CloneTypePack(typePackId, st)

\* the mutant of CloneType: a persistent type is cloned like any other
CloneTypeIgnoresPersistent(typeId, st) ==
    LET s0 == [st EXCEPT !.recursionCount = @ + 1,
                             !.maxDepth = Max(@, st.recursionCount + 1)]
    IN  IF RecursionLimitExceeded(s0.recursionCount)
        THEN [SubstituteErrorType(s0) EXCEPT !.recursionCount = @ - 1]
        ELSE LET s1 == IF s0.seenTypes[typeId] = Null
                       THEN VisitType(typeId, s0)
                       ELSE s0
             IN  [s1 EXCEPT !.ret = s1.seenTypes[typeId],
                            !.recursionCount = @ - 1]

\* a mutant of CloneType: the value of the seen entry read before the visit
\* is returned, not the entry the visit has written
CloneTypeStaleResult(typeId, st) ==
    IF types[typeId].persistent
    THEN [st EXCEPT !.ret = Src(typeId)]
    ELSE LET s0 == [st EXCEPT !.recursionCount = @ + 1,
                             !.maxDepth = Max(@, st.recursionCount + 1)]
         IN  IF RecursionLimitExceeded(s0.recursionCount)
             THEN [SubstituteErrorType(s0) EXCEPT !.recursionCount = @ - 1]
             ELSE LET res == s0.seenTypes[typeId]
                      s1 == IF res = Null THEN VisitType(typeId, s0) ELSE s0
                  IN  [s1 EXCEPT !.ret = res, !.recursionCount = @ - 1]

\* TypeId clone(TypeId typeId, TypeArena& dest, CloneState& cloneState)
CloneType(typeId, st) ==
    IF types[typeId].persistent
    THEN [st EXCEPT !.ret = Src(typeId)]
    ELSE LET s0 == [st EXCEPT !.recursionCount = @ + 1,
                             !.maxDepth = Max(@, st.recursionCount + 1)]
         IN  IF RecursionLimitExceeded(s0.recursionCount)
             THEN [SubstituteErrorType(s0) EXCEPT !.recursionCount = @ - 1]
             ELSE LET res == s0.seenTypes[typeId]
                      s1 == IF res = Null
                            THEN LET v0 == [s0 EXCEPT
                                            !.reentered = IF typeId \in s0.activeT
                                                          THEN @ \cup {<<"type", typeId>>}
                                                          ELSE @,
                                            !.activeT = @ \cup {typeId}]
                                     v1 == VisitType(typeId, v0)
                                 IN  [v1 EXCEPT !.activeT = s0.activeT]
                            ELSE s0
                  IN  [s1 EXCEPT !.ret = s1.seenTypes[typeId],
                                 !.recursionCount = @ - 1]

\* TypePackId clone(TypePackId tp, TypeArena& dest, CloneState& cloneState)
ClonePack(tp, st) ==
    IF packs[tp].persistent
    THEN [st EXCEPT !.ret = Src(tp)]
    ELSE LET s0 == [st EXCEPT !.recursionCount = @ + 1,
                             !.maxDepth = Max(@, st.recursionCount + 1)]
         IN  IF RecursionLimitExceeded(s0.recursionCount)
             THEN [SubstituteErrorPack(s0) EXCEPT !.recursionCount = @ - 1]
             ELSE LET res == s0.seenTypePacks[tp]
                      s1 == IF res = Null
                            THEN LET v0 == [s0 EXCEPT
                                            !.reentered = IF tp \in s0.activeP
                                                          THEN @ \cup {<<"pack", tp>>}
                                                          ELSE @,
                                            !.activeP = @ \cup {tp}]
                                     v1 == VisitPack(tp, v0)
                                 IN  [v1 EXCEPT !.activeP = s0.activeP]
                            ELSE s0
                  IN  [s1 EXCEPT !.ret = s1.seenTypePacks[tp],
                                 !.recursionCount = @ - 1]

----------------------------------------------------------------------------
(***************************************************************************)
(* The source arena.  A node is [kind, persistent, tys, tps]:              *)
(*   Primitive          no children                                        *)
(*   Bound              tys = <<boundTo>>                                  *)
(*   Table              tys = the types of props, in name order            *)
(*   BoundTable         a Table with boundTo set: tys = <<boundTo>> and    *)
(*                      then the types of props                            *)
(*   Union              tys = options                                      *)
(*   Function           tps = <<argTypes, retTypes>>                       *)
(*   GenericPack        no children                                        *)
(*   BoundPack          tps = <<boundTo>>                                  *)
(*   Variadic           tys = <<ty>>                                       *)
(*   TypePack           tys = head, tps = <<tail>> or <<>>                 *)
(* clone returns a persistent node before it reads anything else of it, so *)
(* the persistent nodes of the arena are leaves here.                      *)
(***************************************************************************)
SrcNode(kind, persistent, tys, tps) ==
    [kind |-> kind, persistent |-> persistent, tys |-> tys, tps |-> tps]

TypeNodes ==
    {SrcNode("Primitive", p, <<>>, <<>>) : p \in BOOLEAN}
    \cup {SrcNode("Bound", FALSE, <<t>>, <<>>) : t \in TypeIds}
    \cup {SrcNode("Table", FALSE, ts, <<>>) : ts \in SeqsUpTo(TypeIds, MaxChildren)}
    \cup {SrcNode("BoundTable", FALSE, ts, <<>>) :
              ts \in SeqsUpTo(TypeIds, MaxChildren) \ {<<>>}}
    \cup {SrcNode("Union", FALSE, ts, <<>>) : ts \in SeqsUpTo(TypeIds, MaxChildren) \ {<<>>}}
    \cup {SrcNode("Function", FALSE, <<>>, <<a, r>>) : a \in PackIds, r \in PackIds}

PackNodes ==
    {SrcNode("GenericPack", p, <<>>, <<>>) : p \in BOOLEAN}
    \cup {SrcNode("BoundPack", FALSE, <<>>, <<q>>) : q \in PackIds}
    \cup {SrcNode("Variadic", FALSE, <<t>>, <<>>) : t \in TypeIds}
    \cup {SrcNode("TypePack", FALSE, ts, tl) :
              ts \in SeqsUpTo(TypeIds, MaxChildren), tl \in SeqsUpTo(PackIds, 1)}

Range(f) == {f[i] : i \in DOMAIN f}

\* the nodes of an arena (ty, pk), and the nodes a node points to
T(i) == <<"type", i>>
P(j) == <<"pack", j>>
ArenaNodes(ty, pk) == {T(i) : i \in DOMAIN ty} \cup {P(j) : j \in DOMAIN pk}
NodeOf(ty, pk, x) == IF x[1] = "type" THEN ty[x[2]] ELSE pk[x[2]]
Children(ty, pk, x) ==
    {T(i) : i \in Range(NodeOf(ty, pk, x).tys)}
    \cup {P(j) : j \in Range(NodeOf(ty, pk, x).tps)}

\* the nodes that forward to another node, and the node they forward to
ForwardingKinds == {"Bound", "BoundPack", "BoundTable"}
BoundTo(ty, pk, x) ==
    IF x[1] = "type" THEN T(ty[x[2]].tys[1]) ELSE P(pk[x[2]].tps[1])

\* the edges through which the data model permits a cycle: Table.props,
\* Union.options and Bound (spec 3, invariant 5)
CycleEdges(ty, pk, x) ==
    IF x[1] = "type" /\ ty[x[2]].kind \in {"Table", "BoundTable", "Union", "Bound"}
    THEN Children(ty, pk, x) ELSE {}
OtherEdges(ty, pk, x) == Children(ty, pk, x) \ CycleEdges(ty, pk, x)
BoundEdges(ty, pk, x) ==
    IF NodeOf(ty, pk, x).kind \in ForwardingKinds
    THEN {BoundTo(ty, pk, x)} ELSE {}

\* the edges of one sort that leave the node x
Edges(sort, ty, pk, x) ==
    CASE sort = "all"   -> Children(ty, pk, x)
      [] sort = "bound" -> BoundEdges(ty, pk, x)
      [] sort = "other" -> OtherEdges(ty, pk, x)

RECURSIVE Closure(_, _, _, _, _)
\* the nodes reached from the set S along the edges of one sort, S included
Closure(sort, ty, pk, S, n) ==
    LET next == S \cup UNION {Edges(sort, ty, pk, x) : x \in S}
    IN  IF n = 0 \/ next = S THEN S ELSE Closure(sort, ty, pk, next, n - 1)

\* the nodes reached from x in one step or more
Reach(sort, ty, pk, x) ==
    Closure(sort, ty, pk, Edges(sort, ty, pk, x), MaxTypes + MaxPacks)

\* an arena the program can hold: Bound chains end (invariant 1) and every
\* cycle passes through a permitted edge (invariant 5)
WellFormedArena(ty, pk) ==
    \A x \in ArenaNodes(ty, pk) :
        /\ x \notin Reach("bound", ty, pk, x)
        /\ x \notin Reach("other", ty, pk, x)

EmptySeen == [seenTypes |-> [t \in TypeIds |-> Null],
              seenTypePacks |-> [p \in PackIds |-> Null],
              recursionCount |-> 0]

NoCall == [n |-> 0, what |-> "none", root |-> 0, ret |-> Null, fresh |-> FALSE,
           reentered |-> {}, limitHit |-> FALSE, maxDepth |-> 0]

\* the arenas and the flags a caller may present, and a fresh CloneState
CloneStart ==
    /\ types \in [TypeIds -> TypeNodes]
    /\ packs \in [PackIds -> PackNodes]
    /\ WellFormedArena(types, packs)
    /\ FFlagLuauCloneCyclicUnions \in BOOLEAN
    /\ FFlagDebugLuauCopyBeforeNormalizing \in BOOLEAN
    /\ cloneState = EmptySeen
    /\ dest = [types |-> <<>>, packs |-> <<>>]
    /\ cloneCall = NoCall

\* the record a call of clone computes on
CallState ==
    [seenTypes |-> cloneState.seenTypes,
     seenTypePacks |-> cloneState.seenTypePacks,
     recursionCount |-> cloneState.recursionCount,
     destTypes |-> dest.types, destPacks |-> dest.packs,
     ret |-> Null, activeT |-> {}, activeP |-> {},
     reentered |-> {}, limitHit |-> FALSE, maxDepth |-> 0]

IsFresh == cloneState = EmptySeen /\ dest.types = <<>> /\ dest.packs = <<>>

Returned(what, root, r) ==
    /\ part = "clone"
    /\ cloneState' = [seenTypes |-> r.seenTypes,
                      seenTypePacks |-> r.seenTypePacks,
                      recursionCount |-> r.recursionCount]
    /\ dest' = [types |-> r.destTypes, packs |-> r.destPacks]
    /\ cloneCall' = [n |-> cloneCall.n + 1, what |-> what, root |-> root,
                     ret |-> r.ret, fresh |-> IsFresh,
                     reentered |-> r.reentered, limitHit |-> r.limitHit,
                     maxDepth |-> r.maxDepth]
    /\ UNCHANGED <<types, packs, FFlagLuauCloneCyclicUnions,
                   FFlagDebugLuauCopyBeforeNormalizing>>
    /\ UNCHANGED <<part, frontendVars, validatorVars>>

\* a caller clones the type typeId into the destination arena
CallCloneType(typeId) ==
    /\ cloneCall.n < MaxCloneCalls
    /\ Returned("type", typeId, CloneType(typeId, CallState))

\* a caller clones the type pack tp into the destination arena
CallClonePack(tp) ==
    /\ cloneCall.n < MaxCloneCalls
    /\ Returned("pack", tp, ClonePack(tp, CallState))

NextClone ==
    \/ \E typeId \in TypeIds : CallCloneType(typeId)
    \/ \E tp \in PackIds : CallClonePack(tp)

\* the cloner's variables while another part is at work
CloneIdle ==
    /\ types = [t \in TypeIds |-> SrcNode("Primitive", TRUE, <<>>, <<>>)]
    /\ packs = [p \in PackIds |-> SrcNode("GenericPack", TRUE, <<>>, <<>>)]
    /\ FFlagLuauCloneCyclicUnions = FALSE
    /\ FFlagDebugLuauCopyBeforeNormalizing = FALSE
    /\ cloneState = EmptySeen
    /\ dest = [types |-> <<>>, packs |-> <<>>]
    /\ cloneCall = NoCall

----------------------------------------------------------------------------
(***************************************************************************)
(* Properties of the cloner.                                               *)
(***************************************************************************)
CallRoot == IF cloneCall.what = "type" THEN T(cloneCall.root) ELSE P(cloneCall.root)

\* the source nodes the last call's root reaches, the root included
Graph == {CallRoot} \cup Reach("all", types, packs, CallRoot)

Seen(x) == IF x[1] = "type" THEN cloneState.seenTypes[x[2]]
           ELSE cloneState.seenTypePacks[x[2]]

DestOf(x, id) == IF x[1] = "type" THEN dest.types[id[2]] ELSE dest.packs[id[2]]

\* C1: clone of a persistent type or type pack returns the node itself,
\* whatever the destination arena and the clone state hold, and no node of
\* the destination arena is a copy of a persistent node.
C1_PersistentIdentity ==
    /\ (cloneCall.what = "type" /\ types[cloneCall.root].persistent)
           => cloneCall.ret = Src(cloneCall.root)
    /\ (cloneCall.what = "pack" /\ packs[cloneCall.root].persistent)
           => cloneCall.ret = Src(cloneCall.root)
    /\ \A k \in DOMAIN dest.types :
           dest.types[k].from # 0 => ~types[dest.types[k].from].persistent
    /\ \A k \in DOMAIN dest.packs :
           dest.packs[k].from # 0 => ~packs[dest.packs[k].from].persistent

\* a persistent type was cloned with a clone state and an arena that an
\* earlier call had filled, and a persistent pack likewise
C1_Witness ==
    /\ cloneCall.n = 2
    /\ cloneCall.what = "type"
    /\ types[cloneCall.root].persistent
    /\ dest.types # <<>>
    /\ \E k \in DOMAIN dest.types : Src(cloneCall.root) \in Range(dest.types[k].tys)

\* C2: the clone of a graph without persistent nodes, made with a fresh
\* CloneState, is isomorphic to the graph: every source node has one
\* destination node of its kind, distinct source nodes have distinct ones,
\* the children of a node's clone are the clones of its children, and the
\* destination holds no other node.  Stated on the graphs without Bound
\* nodes and bound tables, which the cloner is documented to follow and not
\* to copy, and on
\* the calls that end without reaching the recursion limit.
C2_CloneIsomorphic ==
    (/\ cloneCall.what # "none"
     /\ cloneCall.fresh
     /\ ~cloneCall.limitHit
     /\ \A x \in Graph : /\ ~NodeOf(types, packs, x).persistent
                         /\ NodeOf(types, packs, x).kind \notin ForwardingKinds)
    =>
    /\ cloneCall.ret = Seen(CallRoot)
    /\ \A x \in Graph :
        /\ Seen(x)[1] = "dst"
        /\ DestOf(x, Seen(x)).kind = NodeOf(types, packs, x).kind
        /\ DestOf(x, Seen(x)).tys =
               [i \in DOMAIN NodeOf(types, packs, x).tys |->
                    Seen(T(NodeOf(types, packs, x).tys[i]))]
        /\ DestOf(x, Seen(x)).tps =
               [i \in DOMAIN NodeOf(types, packs, x).tps |->
                    Seen(P(NodeOf(types, packs, x).tps[i]))]
    /\ \A x, y \in Graph : (x # y /\ x[1] = y[1]) => Seen(x) # Seen(y)
    /\ Len(dest.types) = Cardinality({x \in Graph : x[1] = "type"})
    /\ Len(dest.packs) = Cardinality({x \in Graph : x[1] = "pack"})

\* C10: on every well-formed graph clone ends by itself (the traversal does
\* not run into the recursion limit), returns a node, and never starts the
\* visit of a source node whose visit is still running.  A Bound node or a
\* bound table is followed and has no clone of its own, so only the other
\* kinds count.
C10_TerminatesWithoutReentry ==
    cloneCall.what # "none" =>
        /\ ~cloneCall.limitHit
        /\ cloneCall.ret # Null
        /\ \A x \in cloneCall.reentered :
               NodeOf(types, packs, x).kind \in ForwardingKinds

IsErrorNode(node) == node.kind \in {"Error", "ErrorPack"} /\ node.from = 0

Forwarding ==
    {x \in ArenaNodes(types, packs) :
         NodeOf(types, packs, x).kind \in ForwardingKinds}

\* what clone answers for a source node without visiting it: the node
\* itself when it is persistent, its seen entry otherwise
Resolved(x) ==
    IF NodeOf(types, packs, x).persistent THEN Src(x[2]) ELSE Seen(x)

----------------------------------------------------------------------------
(***************************************************************************)
(* The build orchestrator.  Frontend.h declares it; SourceNode and its     *)
(* dirty bits are defined there.  What markDirty, check and                *)
(* checkQueuedModules do is taken from the design description (4.H, 5).    *)
(***************************************************************************)
Modules == 1..MaxModules

\* FrontendOptions::forAutocomplete: FALSE is the normal view
Views == BOOLEAN

\* struct SourceNode, as constructed
NewSourceNode ==
    [exists |-> TRUE, requireSet |-> {},
     dirtySourceModule |-> TRUE, dirtyModule |-> TRUE,
     dirtyModuleForAutocomplete |-> TRUE]

\* no entry of sourceNodes yet
NoSourceNode == [NewSourceNode EXCEPT !.exists = FALSE]

\* SourceNode::hasDirtySourceModule
hasDirtySourceModule(node) == node.dirtySourceModule

\* the mutant of hasDirtyModule: the views are exchanged
hasDirtyModuleOtherView(node, forAutocomplete) ==
    IF forAutocomplete THEN node.dirtyModule ELSE node.dirtyModuleForAutocomplete

\* SourceNode::hasDirtyModule
hasDirtyModule(node, forAutocomplete) ==
    IF forAutocomplete THEN node.dirtyModuleForAutocomplete ELSE node.dirtyModule

NoModule == [stored |-> FALSE, cyclic |-> FALSE]

Min(S) == CHOOSE x \in S : \A y \in S : x <= y

RECURSIVE SetToSeq(_)
\* the elements of a set of numbers, ascending
SetToSeq(S) == IF S = {} THEN <<>> ELSE <<Min(S)>> \o SetToSeq(S \ {Min(S)})

\* the modules that require m, as far as the source nodes parsed so far say
ReverseDeps(nodes, m) ==
    {n \in Modules : nodes[n].exists /\ m \in nodes[n].requireSet}

\* the mutant of MarkDirtyWalk: only the direct reverse dependencies
MarkDirtyDirectOnly(nodes, queue, marked) ==
    LET name == Head(queue)
    IN  <<name>> \o SetToSeq(ReverseDeps(nodes, name) \ {name})

RECURSIVE MarkDirtyWalk(_, _, _)
\* markDirty's walk over the reverse dependencies: the names in the order
\* they are marked
MarkDirtyWalk(nodes, queue, marked) ==
    IF queue = <<>> THEN marked
    ELSE LET next == Head(queue)
         IN  IF next \in Range(marked)
             THEN MarkDirtyWalk(nodes, Tail(queue), marked)
             ELSE MarkDirtyWalk(nodes,
                                Tail(queue) \o SetToSeq(ReverseDeps(nodes, next)),
                                Append(marked, next))

SetDirty(node) ==
    [node EXCEPT !.dirtySourceModule = TRUE, !.dirtyModule = TRUE,
                 !.dirtyModuleForAutocomplete = TRUE]

NoOp == [op |-> "none", name |-> 0, view |-> FALSE, list |-> <<>>]

\* no call is under way and the caller may call
Idle ==
    /\ batch.pc = "idle"
    /\ part = "queue" => calls < MaxCalls

\* the calls made, counted where they are bounded
Called == calls' = IF part = "queue" THEN calls + 1 ELSE calls

\* a step of the orchestrator
FrontendStep ==
    /\ part \in {"frontend", "queue"}
    /\ UNCHANGED <<part, cloneVars, validatorVars>>

\* Frontend::markDirty(name, &markedDirty)
MarkDirty(name) ==
    /\ FrontendStep
    /\ Idle
    /\ sourceNodes[name].exists
    /\ \E markedDirty \in {MarkDirtyWalk(sourceNodes, <<name>>, <<>>)} :
           /\ sourceNodes' = [m \in Modules |->
                                 IF m \in Range(markedDirty)
                                 THEN SetDirty(sourceNodes[m])
                                 ELSE sourceNodes[m]]
           /\ lastOp' = [op |-> "markDirty", name |-> name, view |-> FALSE,
                         list |-> markedDirty]
    /\ Called
    /\ UNCHANGED <<requires, resolvers, moduleQueue, batch>>

\* what a module requires: from its parsed source node, or from its file
\* when the node has to be parsed
RequireSet(m) ==
    IF sourceNodes[m].exists /\ ~hasDirtySourceModule(sourceNodes[m])
    THEN sourceNodes[m].requireSet
    ELSE requires[m]

RECURSIVE RequireClosure(_, _)
\* the modules reached from the set S along requires, S included
RequireClosure(S, n) ==
    LET next == S \cup UNION {RequireSet(m) : m \in S}
    IN  IF n = 0 \/ next = S THEN S ELSE RequireClosure(next, n - 1)

\* the require graph rooted at the modules of roots
RequireGraph(roots) == RequireClosure(roots, MaxModules)

\* for every module, the modules it reaches in one step or more
RequireTable == [m \in Modules |-> RequireClosure(RequireSet(m), MaxModules)]

\* the strongly connected component of m; R is the RequireTable
Component(R, m) == {m} \cup {n \in R[m] : m \in R[n]}

\* whether m lies on a require cycle
OnRequireCycle(R, m) == m \in R[m]

\* the mutant of OutsideDeps: no module waits for another
OutsideDepsNone(R, m, G) == {}

\* the modules of G that the component of m requires from outside itself
OutsideDeps(R, m, G) ==
    (UNION {RequireSet(n) : n \in Component(R, m)} \cap G) \ Component(R, m)

RECURSIVE BuildOrder(_, _, _, _)
\* parseGraph's build queue: a topological order of G, a component's
\* modules together, every component after the components it requires
BuildOrder(R, G, left, queue) ==
    IF left = {} THEN queue
    ELSE LET free == {m \in left : OutsideDeps(R, m, G) \cap left = {}}
             group == Component(R, Min(free))
         IN  BuildOrder(R, G, left \ group, queue \o SetToSeq(group))

\* the source nodes after the modules of G are parsed where they have to be
Parsed(G) ==
    [m \in Modules |->
        IF m \in G /\ (~sourceNodes[m].exists \/ hasDirtySourceModule(sourceNodes[m]))
        THEN [(IF sourceNodes[m].exists THEN sourceNodes[m] ELSE NewSourceNode)
                  EXCEPT !.requireSet = requires[m], !.dirtySourceModule = FALSE]
        ELSE sourceNodes[m]]

\* the bit of the view is cleared
ClearDirty(node, forAutocomplete) ==
    IF forAutocomplete THEN [node EXCEPT !.dirtyModuleForAutocomplete = FALSE]
    ELSE [node EXCEPT !.dirtyModule = FALSE]

\* the mutant of CheckedModule: no cycle is reported
CheckedModuleNoCycle(R, m) == [stored |-> TRUE, cyclic |-> FALSE]

\* the module record that inference and validation of m produce: the errors
\* of interest here are the ModuleHasCyclicDependency diagnostics
CheckedModule(R, m) == [stored |-> TRUE, cyclic |-> OnRequireCycle(R, m)]

\* the modules of the build queue that have to be checked, in its order
DirtyItems(queue, nodes, forAutocomplete) ==
    LET IsDirty(m) == hasDirtyModule(nodes[m], forAutocomplete)
    IN  SelectSeq(queue, IsDirty)

\* Frontend::check(name, options) with options.forAutocomplete = view
Check(name, view) ==
    /\ FrontendStep
    /\ Idle
    /\ \E R \in {RequireTable}, G \in {RequireGraph({name})} :
       \E nodes \in {Parsed(G)}, buildQueue \in {BuildOrder(R, G, G, <<>>)} :
       \E checked \in {DirtyItems(buildQueue, nodes, view)} :
           /\ sourceNodes' = [m \in Modules |->
                                 IF m \in Range(checked)
                                 THEN ClearDirty(nodes[m], view) ELSE nodes[m]]
           /\ resolvers' = [resolvers EXCEPT ![view] =
                               [m \in Modules |->
                                   IF m \in Range(checked)
                                   THEN CheckedModule(R, m) ELSE @[m]]]
           /\ lastOp' = [op |-> "check", name |-> name, view |-> view,
                         list |-> checked]
    /\ Called
    /\ UNCHANGED <<requires, moduleQueue, batch>>

\* Frontend::queueModuleCheck(name)
QueueModuleCheck(name) ==
    /\ FrontendStep
    /\ Idle
    /\ name \notin moduleQueue
    /\ Cardinality(moduleQueue) < MaxQueued
    /\ moduleQueue' = moduleQueue \cup {name}
    /\ UNCHANGED <<requires, sourceNodes, resolvers, batch, lastOp, calls>>

NoBatch == [pc |-> "idle", view |-> FALSE, status |-> [m \in Modules |-> "none"]]

\* the build queue items of a batch: the dirty modules are planned
PlanItems(G, nodes, forAutocomplete) ==
    [m \in Modules |->
        IF m \in G /\ hasDirtyModule(nodes[m], forAutocomplete)
        THEN "planned" ELSE "none"]

\* what checkQueuedModules returns: the names it checked
BatchReturns(view, names) ==
    lastOp' = [op |-> "checkQueuedModules", name |-> 0, view |-> view,
               list |-> names]

\* Frontend::checkQueuedModules, entry: the queued modules are planned once
CheckQueuedModules(view) ==
    /\ FrontendStep
    /\ Idle
    /\ moduleQueue # {}
    /\ \E G \in {RequireGraph(moduleQueue)} :
       \E nodes \in {Parsed(G)} :
       \E items \in {PlanItems(G, nodes, view)} :
           /\ sourceNodes' = nodes
           /\ moduleQueue' = {}
           /\ IF \E m \in Modules : items[m] = "planned"
              THEN /\ batch' = [pc |-> "dispatch", view |-> view, status |-> items]
                   /\ UNCHANGED lastOp
              ELSE /\ UNCHANGED batch
                   /\ BatchReturns(view, <<>>)
    /\ Called
    /\ UNCHANGED <<requires, resolvers>>

\* an item whose required modules outside its own cycle need no more work
Ready(m) ==
    /\ batch.status[m] = "planned"
    /\ \E R \in {RequireTable} :
           \A d \in OutsideDeps(R, m, Modules) :
               batch.status[d] \in {"none", "recorded"}

\* checkQueuedModules hands the check of m to executeTask, which returns
\* without the task having run
Dispatch(m) ==
    /\ FrontendStep
    /\ batch.pc = "dispatch"
    /\ Ready(m)
    /\ batch' = [batch EXCEPT !.status[m] = "handed"]
    /\ UNCHANGED <<requires, sourceNodes, resolvers, moduleQueue, lastOp, calls>>

\* every ready item is handed out: checkQueuedModules waits
Wait ==
    /\ FrontendStep
    /\ batch.pc = "dispatch"
    /\ \A m \in Modules : ~Ready(m)
    /\ batch' = [batch EXCEPT !.pc = "wait"]
    /\ UNCHANGED <<requires, sourceNodes, resolvers, moduleQueue, lastOp, calls>>

\* a thread of the task runner starts the task: checkBuildQueueItem(m)
TaskStart(m) ==
    /\ FrontendStep
    /\ batch.status[m] = "handed"
    /\ batch' = [batch EXCEPT !.status[m] = "running"]
    /\ UNCHANGED <<requires, sourceNodes, resolvers, moduleQueue, lastOp, calls>>

\* the task of m completes
TaskFinish(m) ==
    /\ FrontendStep
    /\ batch.status[m] = "running"
    /\ batch' = [batch EXCEPT !.status[m] = "finished"]
    /\ UNCHANGED <<requires, sourceNodes, resolvers, moduleQueue, lastOp, calls>>

\* the mutant of AllTasksDone: a task handed out that has not started is
\* not waited for
NoTaskRunning(status) == \A m \in Modules : status[m] # "running"

\* every task handed to executeTask has completed
AllTasksDone(status) == \A m \in Modules : status[m] \notin {"handed", "running"}

\* checkQueuedModules, after the wait: recordItemResult for the finished
\* items, then the next items are handed out or the call returns
RecordResults ==
    /\ FrontendStep
    /\ batch.pc = "wait"
    /\ AllTasksDone(batch.status)
    /\ \E R \in {RequireTable} :
       \E finished \in {{m \in Modules : batch.status[m] = "finished"}} :
       \E status \in {[m \in Modules |->
                         IF m \in finished THEN "recorded" ELSE batch.status[m]]} :
       \E recorded \in {{m \in Modules : status[m] = "recorded"}} :
           /\ resolvers' = [resolvers EXCEPT ![batch.view] =
                               [m \in Modules |->
                                   IF m \in finished THEN CheckedModule(R, m)
                                   ELSE @[m]]]
           /\ sourceNodes' = [m \in Modules |->
                                 IF m \in finished
                                 THEN ClearDirty(sourceNodes[m], batch.view)
                                 ELSE sourceNodes[m]]
           /\ IF \E m \in Modules : status[m] = "planned"
              THEN /\ batch' = [batch EXCEPT !.pc = "dispatch", !.status = status]
                   /\ UNCHANGED lastOp
              ELSE /\ batch' = NoBatch
                   /\ BatchReturns(batch.view, SetToSeq(recorded))
    /\ UNCHANGED <<requires, moduleQueue, calls>>

\* the orchestrator's variables while another part is at work
FrontendIdle ==
    /\ requires = [m \in Modules |-> {}]
    /\ sourceNodes = [m \in Modules |-> NoSourceNode]
    /\ resolvers = [v \in Views |-> [m \in Modules |-> NoModule]]
    /\ moduleQueue = {}
    /\ batch = NoBatch
    /\ lastOp = NoOp
    /\ calls = 0

\* the require statements in the files
RequireCount(req) ==
    Cardinality({e \in Modules \X Modules : e[2] \in req[e[1]]})

\* a Frontend as constructed, over files whose requires are any
FrontendStart ==
    /\ requires \in [Modules -> SUBSET Modules]
    /\ RequireCount(requires) <= MaxRequires
    /\ sourceNodes = [m \in Modules |-> NoSourceNode]
    /\ resolvers = [v \in Views |-> [m \in Modules |-> NoModule]]
    /\ moduleQueue = {}
    /\ batch = NoBatch
    /\ lastOp = NoOp
    /\ calls = 0

NextFrontend ==
    \/ \E name \in Modules : MarkDirty(name)
    \/ \E name \in Modules, view \in Views : Check(name, view)

NextQueue ==
    \/ \E name \in Modules : MarkDirty(name)
    \/ \E name \in Modules, view \in Views : Check(name, view)
    \/ \E name \in Modules : QueueModuleCheck(name)
    \/ \E view \in Views : CheckQueuedModules(view)
    \/ \E m \in Modules : Dispatch(m)
    \/ Wait
    \/ \E m \in Modules : TaskStart(m)
    \/ \E m \in Modules : TaskFinish(m)
    \/ RecordResults

----------------------------------------------------------------------------
(***************************************************************************)
(* Properties of the build orchestrator.                                   *)
(***************************************************************************)
\* the step is a call of op that has returned
Returns(op) == lastOp' # lastOp /\ lastOp'.op = op

\* the dirtyModule bit of a view
ViewBit(node, view) ==
    IF view THEN node.dirtyModuleForAutocomplete ELSE node.dirtyModule

C4_MarkDirtyStep ==
    Returns("markDirty") =>
        LET name == lastOp'.name
            marked == Range(lastOp'.list)
            dependents == {n \in Modules :
                              sourceNodes[n].exists /\ name \in RequireTable[n]}
        IN  /\ marked = {name} \cup dependents
            /\ Len(lastOp'.list) = Cardinality(marked)
            /\ \A m \in marked :
                   /\ sourceNodes'[m].dirtySourceModule
                   /\ sourceNodes'[m].dirtyModule
                   /\ sourceNodes'[m].dirtyModuleForAutocomplete
            /\ \A m \in Modules \ marked : sourceNodes'[m] = sourceNodes[m]

\* C4: a call markDirty(name) sets dirtySourceModule, dirtyModule and
\* dirtyModuleForAutocomplete of name and of every known module that requires
\* name directly or through other modules, leaves the source node of every
\* other module as it was, and returns as the affected list exactly name and
\* those modules, each once.
C4_MarkDirty == [][C4_MarkDirtyStep]_vars

\* markDirty has marked a module that was checked before and requires the
\* name only through another module
C4_Witness ==
    /\ lastOp.op = "markDirty"
    /\ Len(lastOp.list) = 3
    /\ \E n \in Range(lastOp.list) :
           /\ n # lastOp.name
           /\ lastOp.name \notin requires[n]
           /\ resolvers[FALSE][n].stored
           /\ sourceNodes[n].dirtyModule

C5_CheckStep ==
    Returns("check") =>
        LET name == lastOp'.name
            view == lastOp'.view
            list == lastOp'.list
            G == RequireGraph({name})
            dirty == {m \in G : ViewBit(sourceNodes[m], view)}
        IN  /\ Range(list) = dirty
            /\ Len(list) = Cardinality(dirty)
            /\ \A m \in G : ~ViewBit(sourceNodes'[m], view)
            /\ \A m \in Modules \ dirty :
                   ViewBit(sourceNodes'[m], view) = ViewBit(sourceNodes[m], view)
            /\ \A m \in Modules :
                   ViewBit(sourceNodes'[m], ~view) = ViewBit(sourceNodes[m], ~view)
            /\ (lastOp.op = "check" /\ lastOp.name = name /\ lastOp.view = view)
                   => list = <<>>
            /\ (lastOp.op = "markDirty" /\ lastOp.name \in G)
                   => lastOp.name \in Range(list)

\* C5: a call check(root) on a view runs inference on exactly the modules of
\* the root's require graph whose dirtyModule bit of that view is set, each
\* once, and clears that bit; it changes no other bit of the view and no bit
\* of the other view.  So a check of the same root and view that follows
\* with no markDirty in between infers nothing, and the check that follows
\* markDirty(M) infers M when its root reaches M, and infers no module whose
\* bit was clear.
C5_CheckInfersDirtyOnly == [][C5_CheckStep]_vars

\* a check has inferred again a module marked dirty after an earlier check
\* (its record of the other view is stored and dirty) and has left alone a
\* module of the graph that was clean
C5_Witness ==
    /\ lastOp.op = "check"
    /\ \E m \in Range(lastOp.list) :
           /\ resolvers[~lastOp.view][m].stored
           /\ ViewBit(sourceNodes[m], ~lastOp.view)
    /\ RequireGraph({lastOp.name}) \ Range(lastOp.list) # {}

\* the records of the modules m requires outside its cycle are stored and
\* up to date
DepsStored(m, view) ==
    \A d \in requires[m] \ Component(RequireTable, m) :
        /\ resolvers[view][d].stored
        /\ ~ViewBit(sourceNodes[d], view)

C6_TaskRunning ==
    \A m \in Modules : batch.status[m] = "running" => DepsStored(m, batch.view)

C6_CheckStep ==
    Returns("check") =>
        LET list == lastOp'.list
            view == lastOp'.view
        IN  \A i \in DOMAIN list :
                \A d \in requires[list[i]] \ Component(RequireTable, list[i]) :
                    \/ \E j \in 1..(i - 1) : list[j] = d
                    \/ /\ resolvers[view][d].stored
                       /\ ~ViewBit(sourceNodes[d], view)

\* C6: while the task of a module runs under checkQueuedModules, whatever
\* the task runner's interleaving, the record of every module it requires
\* outside its require cycle is stored in the view's resolver and up to
\* date; and check infers a module only after the modules it requires
\* outside its cycle, or with their records stored and up to date.
C6_DependencyOrder == [](C6_TaskRunning) /\ [][C6_CheckStep]_vars

\* two tasks are with the task runner, one of them running, after the module
\* both require was recorded
C6_Witness ==
    \E m, n \in Modules :
        /\ m # n
        /\ batch.status[m] = "running"
        /\ batch.status[n] \in {"handed", "running", "finished"}
        /\ \E d \in requires[m] \cap requires[n] :
               batch.status[d] = "recorded" /\ resolvers[batch.view][d].stored

C8_Step ==
    (/\ batch.pc # "idle"
     /\ resolvers' # resolvers \/ batch'.pc = "idle" \/ Returns("checkQueuedModules"))
    => \A m \in Modules : batch.status[m] \notin {"handed", "running"}

\* C8: a step of checkQueuedModules that records module results, or that
\* returns, is taken only when no task handed to executeTask is still
\* waiting to run or running.
C8_WaitsForTasks == [][C8_Step]_vars

\* checkQueuedModules waits while one task it handed out has not started
\* and another has completed, after it recorded the results of an earlier
\* round
C8_Witness ==
    /\ batch.pc = "wait"
    /\ \E m, n, d \in Modules :
           /\ batch.status[m] = "handed"
           /\ batch.status[n] = "finished"
           /\ batch.status[d] = "recorded"
           /\ resolvers[batch.view][d].stored

----------------------------------------------------------------------------
(***************************************************************************)
(* The validator, TypeChecker2: visitCall.  The call is to a function, to  *)
(* any, to an error type, to never, to a value that cannot be called, to a *)
(* union or to an intersection; callees with a __call metamethod and       *)
(* method calls are left out.                                              *)
(***************************************************************************)
\* the types of arguments and parameters
ArgTypes == {"number", "string", "any"}

\* Location values of a call: the call, its callee, its i-th argument
CallLocation == <<"call", 0>>
FuncLocation == <<"func", 0>>
ArgLocation(i) == <<"arg", i>>

\* TypeError{location, moduleName, data}
TypeError(kind, location, data) == [kind |-> kind, loc |-> location, data |-> data]

\* what the Unifier finds for two ground types: any and error unify both
\* ways, never is below and unknown above every type
Unifies(subTy, superTy) ==
    \/ subTy = superTy
    \/ subTy \in {"any", "error", "never"}
    \/ superTy \in {"any", "error", "unknown"}
    \/ superTy = "number | string" /\ subTy \in {"number", "string"}

\* TypeChecker2::tryUnify on types
tryUnify(location, subTy, superTy) ==
    IF Unifies(subTy, superTy) THEN <<>>
    ELSE <<TypeError("TypeMismatch", location, <<superTy, subTy>>)>>

RECURSIVE tryUnifyTail(_, _, _)
\* TypeChecker2::tryUnify on packs, for a variadic pack of tail against the
\* pack of the types of slice
tryUnifyTail(location, tail, slice) ==
    IF slice = <<>> THEN <<>>
    ELSE tryUnify(location, tail, Head(slice))
             \o tryUnifyTail(location, tail, Tail(slice))

\* the calls: what the call expression is and what inference stored for it.
\*   original   module->astOriginalCallTypes: "none" when there is no entry
\*   selected   module->astOverloadResolvedTypes, likewise
\*   formals    the parameters of the function type (ftv->argTypes)
\*   retOk      whether its result types unify with the expected pack
\*   head       the types of the argument expressions (module->astTypes)
\*   tail       "none", or the element type of the variadic pack that the
\*              last argument expression produces (module->astTypePacks)
Calls ==
    [original : {"none", "Function", "Any", "Error", "Never", "Number"},
     selected : {"none", "Function", "Any", "Number"},
     formals : SeqsUpTo(ArgTypes, MaxArgs),
     retOk : BOOLEAN,
     head : SeqsUpTo(ArgTypes, MaxArgs),
     tail : {"none"} \cup ArgTypes,
     visited : {FALSE}]

\* what a union's options are after follow: two functions and a type that
\* is no function
OptionTypes == {"F", "G", "Number"}

\* the calls of a function for which inference stored no tail
PlainCalls ==
    {c \in Calls : c.original = "Function" /\ c.tail = "none" /\ c.retOk}

\* the calls of a union without a __call metamethod: optional is what
\* isOptional answers, options the followed options in order; the function
\* all options may share has the parameters formals
UnionCalls ==
    {[original |-> "Union", optional |-> o, options |-> m,
      selected |-> c.selected, formals |-> c.formals, retOk |-> c.retOk,
      head |-> c.head, tail |-> c.tail, visited |-> FALSE] :
         o \in BOOLEAN,
         m \in SeqsUpTo(OptionTypes, MaxOptions) \ {<<>>},
         c \in PlainCalls}

\* an entry of overloads: a function type with its number of parameters, or
\* a type that is no function and has no __call metamethod
Overload(function, arity) == [function |-> function, arity |-> arity]

\* the calls of an intersection: hasFunctions is what the normal form
\* answers, overloads the numbers of parameters of its function parts
IntersectionCalls ==
    {[original |-> "Intersection", hasFunctions |-> h, overloads |-> v,
      selected |-> c.selected, formals |-> c.formals, retOk |-> c.retOk,
      head |-> c.head, tail |-> c.tail, visited |-> FALSE] :
         h \in BOOLEAN,
         v \in SeqsUpTo({Overload(TRUE, n) : n \in 0..MaxArgs}, MaxOptions) \ {<<>>},
         c \in PlainCalls}

\* argLocs: one location for every argument expression
ArgLocs(c) ==
    [i \in 1..(Len(c.head) + (IF c.tail = "none" THEN 0 ELSE 1)) |-> ArgLocation(i)]

RECURSIVE CheckArguments(_, _, _)
\* the loop over ftv->argTypes from the i-th parameter on: the errors of the
\* arguments that are there
CheckArguments(c, i, errs) ==
    IF i > Len(c.formals) \/ i > Len(c.head) THEN errs
    ELSE CheckArguments(c, i + 1,
             errs \o tryUnify(ArgLocs(c)[i], c.head[i], c.formals[i]))

\* the parameters the loop found no argument for
Slice(c) == SubSeq(c.formals, Len(c.head) + 1, Len(c.formals))

\* after the loop: the parameters left over are unified with the tail of
\* the arguments, when there is a tail
CheckSlice(c) ==
    IF Len(Slice(c)) > 0 /\ c.tail # "none"
    THEN tryUnifyTail(ArgLocs(c)[Len(ArgLocs(c))], c.tail, Slice(c))
    ELSE <<>>

\* visitCall for a call with an entry in astOverloadResolvedTypes
CheckSelectedOverload(c) ==
    CASE c.selected = "Any" -> <<>>
      [] c.selected = "Number" ->
             <<TypeError("CannotCallNonFunction", FuncLocation, <<>>)>>
      [] c.selected = "Function" ->
             (IF c.retOk THEN <<>>
              ELSE <<TypeError("TypeMismatch", CallLocation, <<>>)>>)
             \o CheckArguments(c, 1, <<>>)
             \o CheckSlice(c)

\* flattenIntersection(originalCallTy), taken before a union is unwrapped:
\* the parts of an intersection, or the type itself
Overloads(c) ==
    CASE c.original = "Intersection" -> c.overloads
      [] c.original = "Union" -> <<Overload(FALSE, 0)>>
      [] OTHER -> <<Overload(TRUE, Len(c.formals))>>

\* the overloads whose number of parameters is size(expectedArgTypes)
arityMatchingOverloads(c) ==
    SelectSeq(Overloads(c), LAMBDA o : o.function /\ o.arity = Len(c.head))

\* a mutant of ReportNoOverload: all the overloads are listed in every case
ReportNoOverloadListsAll(c) ==
    <<TypeError("GenericError", CallLocation,
                <<IF arityMatchingOverloads(c) = <<>>
                  THEN "No overload accepts the arguments"
                  ELSE "None of the overloads are compatible">>),
      TypeError("ExtraInformation", FuncLocation, Overloads(c))>>

\* visitCall for a call without one: no overload worked
ReportNoOverload(c) ==
    <<TypeError("GenericError", CallLocation,
                <<IF arityMatchingOverloads(c) = <<>>
                  THEN "No overload accepts the arguments"
                  ELSE "None of the overloads are compatible">>),
      TypeError("ExtraInformation", FuncLocation,
                IF arityMatchingOverloads(c) = <<>>
                THEN Overloads(c) ELSE arityMatchingOverloads(c))>>

\* visitCall from the arguments on
CheckCall(c) ==
    IF c.selected # "none" THEN CheckSelectedOverload(c)
    ELSE ReportNoOverload(c)

\* a mutant of visitCall: never is not among the types accepted at once
visitCallNeverNotAccepted(c) ==
    CASE c.original \in {"none", "Any", "Error"} -> <<>>
      [] c.original \in {"Number", "Never"} ->
             <<TypeError("CannotCallNonFunction", FuncLocation, <<>>)>>
      [] OTHER -> CheckCall(c)

\* visitCall for a union without a __call metamethod
visitUnionCall(c) ==
    IF c.optional
    THEN <<TypeError("OptionalValueAccess", CallLocation, <<>>)>>
    ELSE IF \E i \in DOMAIN c.options : c.options[i] # c.options[1]
         THEN <<TypeError("CannotCallNonFunction", FuncLocation, <<>>)>>
         ELSE IF c.options[1] \notin {"F", "G"}
              THEN <<TypeError("CannotCallNonFunction", FuncLocation, <<>>)>>
              ELSE CheckCall(c)

\* TypeChecker2::visitCall: the errors it reports, in order
visitCall(c) ==
    CASE c.original \in {"none", "Any", "Error", "Never"} -> <<>>
      [] c.original = "Number" ->
             <<TypeError("CannotCallNonFunction", FuncLocation, <<>>)>>
      [] c.original = "Function" -> CheckCall(c)
      [] c.original = "Intersection" ->
             IF c.hasFunctions THEN CheckCall(c)
             ELSE <<TypeError("CannotCallNonFunction", FuncLocation, <<>>)>>
      [] c.original = "Union" -> visitUnionCall(c)

\* what visit(AstExprCall*) may have reported in the callee and the
\* arguments before it comes to visitCall
EarlierErrors == {<<>>, <<TypeError("UnknownSymbol", FuncLocation, <<>>)>>}

\* a call with what inference stored for it, and the errors so far
CallStart ==
    /\ call \in Calls \cup UnionCalls \cup IntersectionCalls
    /\ ast = <<>>
    /\ lookup = <<>>
    /\ astNode = <<>>
    /\ errors \in EarlierErrors

\* the validator comes to the call
VisitCall ==
    /\ part = "call"
    /\ ~call.visited
    /\ errors' = errors \o visitCall(call)
    /\ call' = [call EXCEPT !.visited = TRUE]
    /\ UNCHANGED <<part, cloneVars, frontendVars, ast, lookup, astNode>>

NextCall == VisitCall

\* C3 (for a call whose argument pack has no tail): once visitCall has
\* visited a call to a function with a stored overload-resolved function
\* type that has more parameters than the call has arguments, the error list
\* holds a CountMismatch with context Arg, expected the number of
\* parameters and actual the number of arguments.
C3_CountMismatchForMissingArgs ==
    (/\ call.visited
     /\ call.original = "Function"
     /\ call.selected = "Function"
     /\ call.tail = "none"
     /\ Len(call.formals) > Len(call.head))
    => \E i \in DOMAIN errors :
           /\ errors[i].kind = "CountMismatch"
           /\ errors[i].data = <<Len(call.formals), Len(call.head), "Arg">>

\* C14: visitCall on a call whose stored original call type is any, an
\* error type or never appends nothing to the module's errors, whatever the
\* arguments and the stored overload-resolved type are.
C14_SuppressorCalleeStep ==
    (/\ ~call.visited
     /\ call'.visited
     /\ call.original \in {"Any", "Error", "Never"})
    => errors' = errors

C14_SuppressorCallee == [][C14_SuppressorCalleeStep]_vars

\* visitCall has visited a call to never with arguments that do not fit the
\* stored overload-resolved function type, after an earlier diagnostic
C14_Witness ==
    /\ call.visited
    /\ call.original = "Never"
    /\ call.selected = "Function"
    /\ Len(call.formals) = 1 /\ Len(call.head) = 2
    /\ ~call.retOk
    /\ Len(errors) = 1

----------------------------------------------------------------------------
(***************************************************************************)
(* The validator, TypeChecker2: the walk over the statements.  A Location  *)
(* is the position where the node begins; nodes that begin later in the    *)
(* source have the larger position.                                        *)
(***************************************************************************)
\* the positions a statement of the root block takes
StatWidth == 4

\* the expressions that begin at position p: a local x, or x.name with x of
\* a type that is optional or not
ExprsAt(p) ==
    {[kind |-> "Local", loc |-> p, optional |-> FALSE]}
    \cup {[kind |-> "IndexName", loc |-> p, optional |-> o] : o \in BOOLEAN}

\* the statements without a body that begin at p: "e" and "return e"; typeOk
\* is whether the returned pack unifies with the scope's return type
SimpleStatsAt(p) ==
    {[kind |-> "Expr", loc |-> p, expr |-> e] : e \in ExprsAt(p)}
    \cup {[kind |-> "Return", loc |-> p, typeOk |-> ok, list |-> <<e>>] :
              ok \in BOOLEAN, e \in ExprsAt(p + 1)}

\* the blocks of at most one statement that begin at p
BodiesAt(p) ==
    {[kind |-> "Block", loc |-> p, body |-> <<>>]}
    \cup {[kind |-> "Block", loc |-> p, body |-> <<st>>] : st \in SimpleStatsAt(p)}

\* what inference found the first value of a for..in to be
IteratorTypes ==
    {"Function", "TableNoIndexer", "Any", "Error", "Never", "Optional", "Number"}

\* the statements that begin at p, "while e do body end" and
\* "for x in e do body end" among them
StatsAt(p) ==
    SimpleStatsAt(p)
    \cup {[kind |-> "While", loc |-> p, condition |-> e, body |-> b] :
              e \in ExprsAt(p + 1), b \in BodiesAt(p + 2)}
    \cup {[kind |-> "ForIn", loc |-> p, values |-> <<e>>, iteratorTy |-> ty,
           body |-> b] :
              e \in ExprsAt(p + 1), ty \in IteratorTypes, b \in BodiesAt(p + 2)}

\* TypeChecker2::reportError
reportError(errs, kind, location) == Append(errs, TypeError(kind, location, <<>>))

\* TypeChecker2::visit(AstExpr*): AstExprLocal, and AstExprIndexName through
\* visitExprName and stripFromNilAndReport
visitExpr(expr, errs) ==
    IF expr.kind = "IndexName" /\ expr.optional
    THEN reportError(errs, "OptionalValueAccess", expr.loc)
    ELSE errs

RECURSIVE visitExprs(_, _)
visitExprs(exprs, errs) ==
    IF exprs = <<>> THEN errs
    ELSE visitExprs(Tail(exprs), visitExpr(Head(exprs), errs))

\* visit(AstStatForIn*) with a check of never that falls to the last branch
checkIteratorNeverFallsThrough(forInStatement, errs) ==
    CASE forInStatement.iteratorTy = "Function" -> errs
      [] forInStatement.iteratorTy = "TableNoIndexer" ->
             reportError(errs, "GenericError", forInStatement.values[1].loc)
      [] forInStatement.iteratorTy \in {"Any", "Error"} -> errs
      [] forInStatement.iteratorTy = "Optional" ->
             reportError(errs, "OptionalValueAccess", forInStatement.values[1].loc)
      [] OTHER ->
             reportError(errs, "CannotCallNonFunction", forInStatement.values[1].loc)

\* visit(AstStatForIn*), after the body: the checks of the iterator.  The
\* function is one that fits the variables and the iterator state; Number
\* is a type that is none of the others and has no __iter metamethod
checkIterator(forInStatement, errs) ==
    CASE forInStatement.iteratorTy = "Function" -> errs
      [] forInStatement.iteratorTy = "TableNoIndexer" ->
             reportError(errs, "GenericError", forInStatement.values[1].loc)
      [] forInStatement.iteratorTy \in {"Any", "Error", "Never"} -> errs
      [] forInStatement.iteratorTy = "Optional" ->
             reportError(errs, "OptionalValueAccess", forInStatement.values[1].loc)
      [] OTHER ->
             reportError(errs, "CannotCallNonFunction", forInStatement.values[1].loc)

RECURSIVE visitStat(_, _), visitBlock(_, _)
\* visit(AstStatReturn*)
visitReturn(ret, errs) ==
    visitExprs(ret.list,
               IF ret.typeOk THEN errs ELSE reportError(errs, "TypeMismatch", ret.loc))

\* visit(AstStatWhile*)
visitWhile(whileStatement, errs) ==
    visitStat(whileStatement.body, visitExpr(whileStatement.condition, errs))

\* visit(AstStatForIn*)
visitForIn(forInStatement, errs) ==
    checkIterator(forInStatement,
                  visitStat(forInStatement.body,
                            visitExprs(forInStatement.values, errs)))

\* visit(AstStatBlock*): the statements from the first of stats on
visitBlock(stats, errs) ==
    IF stats = <<>> THEN errs
    ELSE visitBlock(Tail(stats), visitStat(Head(stats), errs))

\* visit(AstStat*)
visitStat(stat, errs) ==
    CASE stat.kind = "Block" -> visitBlock(stat.body, errs)
      [] stat.kind = "Expr" -> visitExpr(stat.expr, errs)
      [] stat.kind = "Return" -> visitReturn(stat, errs)
      [] stat.kind = "While" -> visitWhile(stat, errs)
      [] stat.kind = "ForIn" -> visitForIn(stat, errs)

RECURSIVE RootIs(_, _, _)
\* sourceModule.root is a block of the statements of body and of at most n
\* more, the next of which begins at p; a root block has a statement
RootIs(body, p, n) ==
    \/ /\ body # <<>>
       /\ ast = [root |-> [kind |-> "Block", loc |-> 0, body |-> body],
                 checked |-> FALSE]
    \/ /\ n > 0
       /\ \E st \in StatsAt(p) : RootIs(Append(body, st), p + StatWidth, n - 1)

\* a module after inference, with no errors so far
VisitStart ==
    /\ RootIs(<<>>, 1, MaxStats)
    /\ call = <<>>
    /\ lookup = <<>>
    /\ astNode = <<>>
    /\ errors = <<>>

\* Luau::check(builtinTypes, unifierState, logger, sourceModule, module)
CheckModule ==
    /\ part = "visit"
    /\ ~ast.checked
    /\ errors' = visitStat(ast.root, errors)
    /\ ast' = [ast EXCEPT !.checked = TRUE]
    /\ UNCHANGED <<part, cloneVars, frontendVars, call, lookup, astNode>>

NextVisit == CheckModule

\* C9: the diagnostics in the module's error list are in source order: none
\* comes after a diagnostic of a later position.
C9_ErrorsInSourceOrder ==
    \A i, j \in DOMAIN errors : i < j => errors[i].loc <= errors[j].loc

\* the for..in statements of the root block
ForIns ==
    IF part = "visit"
    THEN {ast.root.body[i] : i \in {j \in DOMAIN ast.root.body :
                                        ast.root.body[j].kind = "ForIn"}}
    ELSE {}

\* the kinds of the diagnostics at a location, in the order of the list
KindsAt(location) ==
    LET at == SelectSeq(errors, LAMBDA e : e.loc = location)
    IN  [i \in DOMAIN at |-> at[i].kind]

\* the kinds of the diagnostics the visit of an expression gives by itself
OwnKinds(expr) ==
    LET own == visitExpr(expr, <<>>)
    IN  [i \in DOMAIN own |-> own[i].kind]

\* C18: of a for..in whose first iterator type is no function, no table with
\* an indexer and has no __iter, the check of the iterator gives no
\* diagnostic for any, error and never, OptionalValueAccess for an optional
\* type and CannotCallNonFunction for every other type, a table without an
\* indexer among them (at the first value, after what the visit of the
\* value gave).
C18_IteratorFallback ==
    (part = "visit" /\ ast.checked) =>
        \A f \in ForIns :
            f.iteratorTy # "Function" =>
                KindsAt(f.values[1].loc) =
                    OwnKinds(f.values[1]) \o
                        (CASE f.iteratorTy \in {"Any", "Error", "Never"} -> <<>>
                           [] f.iteratorTy = "Optional" -> <<"OptionalValueAccess">>
                           [] OTHER -> <<"CannotCallNonFunction">>)

\* C18 as amended: the same, but a table without an indexer gives
\* GenericError (cannot iterate over a table without indexer).
C18_IteratorFallbackTable ==
    (part = "visit" /\ ast.checked) =>
        \A f \in ForIns :
            f.iteratorTy # "Function" =>
                KindsAt(f.values[1].loc) =
                    OwnKinds(f.values[1]) \o
                        (CASE f.iteratorTy \in {"Any", "Error", "Never"} -> <<>>
                           [] f.iteratorTy = "Optional" -> <<"OptionalValueAccess">>
                           [] f.iteratorTy = "TableNoIndexer" -> <<"GenericError">>
                           [] OTHER -> <<"CannotCallNonFunction">>)

\* a module with a loop over never and a loop over a table without an
\* indexer was checked: the one diagnostic is that of the table
C18_Witness ==
    /\ part = "visit"
    /\ ast.checked
    /\ Len(ast.root.body) = 2
    /\ ast.root.body[1].kind = "ForIn" /\ ast.root.body[1].iteratorTy = "Never"
    /\ ast.root.body[2].kind = "ForIn"
    /\ ast.root.body[2].iteratorTy = "TableNoIndexer"
    /\ Len(errors) = 1
    /\ errors[1].kind = "GenericError"

----------------------------------------------------------------------------
(***************************************************************************)
(* The validator, TypeChecker2: the property lookup.  A type is            *)
(* [kind, props, indexer, parts, inhabited]: props are the names a table   *)
(* or a class (with its parents) carries, indexer the key type of its      *)
(* indexer or "none", parts the options of a union or the parts of an      *)
(* intersection, inhabited what Normalizer::isInhabited answers for it.    *)
(* Two equal records are one TypeId.  Metatables of tables are left out.   *)
(***************************************************************************)
Ty(kind, props, indexer, parts, inhabited) ==
    [kind |-> kind, props |-> props, indexer |-> indexer, parts |-> parts,
     inhabited |-> inhabited]

Prim(kind) == Ty(kind, {}, "none", <<>>, kind # "Never")

\* the names looked up; the string library has len
PropNames == {"x", "len"}

\* the table that the metatable of string has for __index
StringLib == Ty("Table", {"len"}, "none", <<>>, TRUE)

\* tables: with or without the property x and an indexer; the last one has a
\* property of type never and no inhabitant
TableTypes ==
    {Ty("Table", ps, ix, <<>>, TRUE) :
         ps \in {{}, {"x"}}, ix \in {"none", "String", "Number", "Any", "Unknown"}}
    \cup {Ty("Table", {"x"}, "none", <<>>, FALSE)}

\* classes: the names lookupClassProp finds in the class and its parents
ClassTypes ==
    {Ty("Class", ps, ix, <<>>, TRUE) :
         ps \in {{}, {"x"}}, ix \in {"none", "String", "Number"}}

\* what typeFromNormal yields for the bound of a type variable
BoundTypes ==
    {Ty("Table", {"x"}, "none", <<>>, TRUE),
     Ty("Table", {}, "none", <<>>, TRUE),
     Ty("Union", {}, "none",
        <<Ty("Table", {"x"}, "none", <<>>, TRUE), Prim("Any")>>, TRUE),
     Ty("Union", {}, "none",
        <<Ty("Table", {"x"}, "none", <<>>, TRUE),
          Ty("Table", {}, "none", <<>>, TRUE)>>, TRUE)}

\* Normalizer::isInhabited(TypeId)
isInhabited(ty) == ty.inhabited

\* Normalizer::isInhabited of the intersection of a class indexer's key type
\* with the type of the index expression
IndexerMeetInhabited(indexType, astIndexExprType) ==
    indexType = astIndexExprType \/ indexType \in {"Any", "Unknown"}

\* findTablePropertyRespectingMeta, for a table without a metatable
findTableProperty(ty, prop) == prop \in ty.props

\* lookupClassProp
lookupClassProp(cls, prop) == prop \in cls.props

\* the tail of hasIndexTypeFromType for a table
TableHasIndex(ty, prop) ==
    \/ findTableProperty(ty, prop)
    \/ ty.indexer \in {"String", "Any", "Unknown"}

\* the tail of hasIndexTypeFromType for a class
ClassHasIndex(cls, prop, astIndexExprType) ==
    \/ lookupClassProp(cls, prop)
    \/ cls.indexer # "none" /\ IndexerMeetInhabited(cls.indexer, astIndexExprType)

RECURSIVE hasIndexTypeFromType(_, _, _, _), AllOfParts(_, _, _, _), AnyOfParts(_, _, _, _)
\* std::all_of over the options of a union: stops at the first that fails
AllOfParts(parts, prop, seen, astIndexExprType) ==
    IF parts = <<>> THEN [found |-> TRUE, seen |-> seen]
    ELSE LET r == hasIndexTypeFromType(Head(parts), prop, seen, astIndexExprType)
         IN  IF r.found
             THEN AllOfParts(Tail(parts), prop, r.seen, astIndexExprType)
             ELSE r

\* std::any_of over the parts of an intersection: stops at the first found
AnyOfParts(parts, prop, seen, astIndexExprType) ==
    IF parts = <<>> THEN [found |-> FALSE, seen |-> seen]
    ELSE LET r == hasIndexTypeFromType(Head(parts), prop, seen, astIndexExprType)
         IN  IF r.found
             THEN r
             ELSE AnyOfParts(Tail(parts), prop, r.seen, astIndexExprType)

\* a mutant of hasIndexTypeFromType: any is not among the types that carry
\* every property
hasIndexTypeFromTypeAnyLacks(ty, prop, seen, astIndexExprType) ==
    IF ty \in seen THEN [found |-> TRUE, seen |-> seen]
    ELSE LET seen1 == seen \cup {ty}
         IN  CASE ty.kind \in {"Error", "Never"} ->
                      [found |-> TRUE, seen |-> seen1]
               [] ty.kind = "String" ->
                      [found |-> TableHasIndex(StringLib, prop), seen |-> seen1]
               [] ty.kind = "Table" ->
                      [found |-> TableHasIndex(ty, prop), seen |-> seen1]
               [] ty.kind = "Class" ->
                      [found |-> ClassHasIndex(ty, prop, astIndexExprType),
                       seen |-> seen1]
               [] ty.kind = "Union" ->
                      AllOfParts(ty.parts, prop, seen1, astIndexExprType)
               [] ty.kind = "Intersection" ->
                      AnyOfParts(ty.parts, prop, seen1, astIndexExprType)
               [] OTHER -> [found |-> FALSE, seen |-> seen1]

\* TypeChecker2::hasIndexTypeFromType: the answer and the seen set it leaves
hasIndexTypeFromType(ty, prop, seen, astIndexExprType) ==
    IF ty \in seen THEN [found |-> TRUE, seen |-> seen]
    ELSE LET seen1 == seen \cup {ty}
         IN  CASE ty.kind \in {"Error", "Any", "Never"} ->
                      [found |-> TRUE, seen |-> seen1]
               [] ty.kind = "String" ->
                      [found |-> TableHasIndex(StringLib, prop), seen |-> seen1]
               [] ty.kind = "Table" ->
                      [found |-> TableHasIndex(ty, prop), seen |-> seen1]
               [] ty.kind = "Class" ->
                      [found |-> ClassHasIndex(ty, prop, astIndexExprType),
                       seen |-> seen1]
               [] ty.kind = "Union" ->
                      AllOfParts(ty.parts, prop, seen1, astIndexExprType)
               [] ty.kind = "Intersection" ->
                      AnyOfParts(ty.parts, prop, seen1, astIndexExprType)
               [] OTHER -> [found |-> FALSE, seen |-> seen1]

\* the function types a normalized type has for parts; parts holds the
\* parameter types of a function
FunctionTypes ==
    {Ty("Function", {}, "none", <<>>, TRUE),
     Ty("Function", {}, "none", <<Prim("Number")>>, TRUE)}

\* the type variables of a normalized type: the variable, whether the tops
\* of its bound are never, and the type typeFromNormal yields for the bound
TyvarEntries ==
    {[tyvar |-> Prim("Free"), topsNever |-> FALSE, ty |-> Prim("Unknown")]}
    \cup {[tyvar |-> Prim("Free"), topsNever |-> TRUE, ty |-> b] : b \in BoundTypes}

\* the empty NormalizedType: never
EmptyNorm ==
    [tops |-> Prim("Never"), booleans |-> Prim("Never"), classes |-> <<>>,
     errors |-> Prim("Never"), nils |-> Prim("Never"), numbers |-> Prim("Never"),
     strings |-> FALSE, threads |-> Prim("Never"), tables |-> <<>>,
     functions |-> [isTop |-> FALSE, parts |-> <<>>], tyvars |-> <<>>]

Count(b) == IF b THEN 1 ELSE 0

\* the number of components of a normalized type that are not never
Components(norm) ==
    Count(norm.tops.kind # "Never") + Count(norm.booleans.kind # "Never")
    + Len(norm.classes) + Count(norm.errors.kind # "Never")
    + Count(norm.nils.kind # "Never") + Count(norm.numbers.kind # "Never")
    + Count(norm.strings) + Count(norm.threads.kind # "Never")
    + Len(norm.tables)
    + Count(norm.functions.isTop \/ norm.functions.parts # <<>>)
    + Len(norm.tyvars)

\* struct NormalizedType, as Normalizer::normalize builds it: a top type
\* leaves no other component
NormalizedTypes(n) ==
    {norm \in
        [tops : {Prim("Never"), Prim("Any"), Prim("Unknown")},
         booleans : {Prim("Never"), Prim("Boolean")},
         classes : SeqsUpTo(ClassTypes, 1),
         errors : {Prim("Never"), Prim("Error")},
         nils : {Prim("Never"), Prim("Nil")},
         numbers : {Prim("Never"), Prim("Number")},
         strings : BOOLEAN,
         threads : {Prim("Never"), Prim("Thread")},
         tables : SeqsUpTo(TableTypes, 1),
         functions : {[isTop |-> FALSE, parts |-> <<>>],
                      [isTop |-> TRUE, parts |-> <<>>],
                      [isTop |-> FALSE, parts |-> <<Ty("Function", {}, "none", <<>>, TRUE)>>],
                      [isTop |-> FALSE,
                       parts |-> <<Ty("Function", {}, "none", <<>>, TRUE),
                                   Ty("Function", {}, "none", <<Prim("Number")>>, TRUE)>>]},
         tyvars : SeqsUpTo(TyvarEntries, 1)] :
        /\ Components(norm) <= n
        /\ norm.tops.kind # "Never" => Components(norm) = 1}

\* the normal form of the receivers that are a top, an error type or a class
NormalFormOf(tableTy, norm) ==
    CASE tableTy = "Any" -> norm = [EmptyNorm EXCEPT !.tops = Prim("Any")]
      [] tableTy = "Unknown" -> norm = [EmptyNorm EXCEPT !.tops = Prim("Unknown")]
      [] tableTy = "Never" -> norm = EmptyNorm
      [] tableTy = "Error" -> norm = [EmptyNorm EXCEPT !.errors = Prim("Error")]
      [] tableTy = "Class" -> Components(norm) = 1 /\ Len(norm.classes) = 1
      [] OTHER -> TRUE

\* the type fetch is called with for a type variable
TyvarType(e) ==
    IF e.topsNever
    THEN Ty("Intersection", {}, "none", <<e.tyvar, e.ty>>, e.ty.inhabited)
    ELSE e.tyvar

\* the types checkIndexTypeFromType calls fetch with, in the order of the calls
FetchList(norm) ==
    <<norm.tops, norm.booleans>>
    \o norm.classes
    \o <<norm.errors, norm.nils, norm.numbers>>
    \o (IF norm.strings THEN <<Prim("String")>> ELSE <<>>)
    \o <<norm.threads>>
    \o norm.tables
    \o (IF norm.functions.isTop THEN <<Prim("Function")>>
        ELSE IF norm.functions.parts = <<>> THEN <<>>
        ELSE IF Len(norm.functions.parts) = 1 THEN norm.functions.parts
        ELSE <<Ty("Intersection", {}, "none", norm.functions.parts, TRUE)>>)
    \o [i \in DOMAIN norm.tyvars |-> TyvarType(norm.tyvars[i])]

\* a mutant of Fetch: a component without inhabitants is looked at too
FetchUninhabitedToo(acc, ty, prop, astIndexExprType) ==
    LET found == hasIndexTypeFromType(ty, prop, {}, astIndexExprType).found
    IN  [foundOneProp |-> acc.foundOneProp \/ found,
         typesMissingTheProp |-> IF found THEN acc.typesMissingTheProp
                                 ELSE Append(acc.typesMissingTheProp, ty)]

\* the lambda fetch of checkIndexTypeFromType
Fetch(acc, ty, prop, astIndexExprType) ==
    IF ~isInhabited(ty) THEN acc
    ELSE LET found == hasIndexTypeFromType(ty, prop, {}, astIndexExprType).found
         IN  [foundOneProp |-> acc.foundOneProp \/ found,
              typesMissingTheProp |-> IF found THEN acc.typesMissingTheProp
                                      ELSE Append(acc.typesMissingTheProp, ty)]

RECURSIVE FetchAll(_, _, _, _)
FetchAll(acc, tys, prop, astIndexExprType) ==
    IF tys = <<>> THEN acc
    ELSE FetchAll(Fetch(acc, Head(tys), prop, astIndexExprType), Tail(tys),
                  prop, astIndexExprType)

LookupLocation == <<"index", 0>>

\* TypeChecker2::checkIndexTypeFromType: the errors it reports
checkIndexTypeFromType(l) ==
    IF ~l.normalized
    THEN <<TypeError("NormalizationTooComplex", LookupLocation, <<>>)>>
    ELSE LET acc == FetchAll([foundOneProp |-> FALSE, typesMissingTheProp |-> <<>>],
                             FetchList(l.norm), l.prop, l.astIndexExprType)
         IN  IF acc.typesMissingTheProp = <<>> THEN <<>>
             ELSE IF acc.foundOneProp
             THEN <<TypeError("MissingUnionProperty", LookupLocation,
                              <<l.tableTy, acc.typesMissingTheProp, l.prop>>)>>
             ELSE IF l.context = "LValue" /\ l.tableTy # "Class"
             THEN <<TypeError("CannotExtendTable", LookupLocation,
                              <<l.tableTy, "Property", l.prop>>)>>
             ELSE <<TypeError("UnknownProperty", LookupLocation,
                              <<l.tableTy, l.prop>>)>>

\* the lookups: the receiver, its normal form (normalized is FALSE when
\* Normalizer::normalize gave none), the name, the context and the type of
\* the index expression
Lookups ==
    {l \in [tableTy : {"Any", "Unknown", "Never", "Error", "Class", "Other"},
            normalized : BOOLEAN,
            norm : NormalizedTypes(MaxComponents),
            prop : PropNames,
            context : {"RValue", "LValue"},
            astIndexExprType : {"String"},
            checked : {FALSE}] :
        IF l.normalized THEN NormalFormOf(l.tableTy, l.norm)
        ELSE l.tableTy = "Other" /\ l.norm = EmptyNorm}

\* what visitExprName may have reported before it comes to the lookup
ErrorsBeforeLookup ==
    {<<>>, <<TypeError("OptionalValueAccess", LookupLocation, <<>>)>>}

LookupStart ==
    /\ lookup \in Lookups
    /\ call = <<>>
    /\ ast = <<>>
    /\ astNode = <<>>
    /\ errors \in ErrorsBeforeLookup

\* visitExprName comes to checkIndexTypeFromType
CheckIndex ==
    /\ part = "lookup"
    /\ ~lookup.checked
    /\ errors' = errors \o checkIndexTypeFromType(lookup)
    /\ lookup' = [lookup EXCEPT !.checked = TRUE]
    /\ UNCHANGED <<part, cloneVars, frontendVars, call, ast, astNode>>

NextLookup == CheckIndex

\* the diagnostics the step has appended, when the earlier ones are kept
Appended == SubSeq(errors', Len(errors) + 1, Len(errors'))

LookupStep == ~lookup.checked /\ lookup'.checked

\* C12: a lookup on a receiver of type any, error, never or unknown reports
\* no diagnostic, whatever the name and the context are.
C12_TopReceiversSilent ==
    [][(LookupStep /\ lookup.tableTy \in {"Any", "Error", "Never", "Unknown"})
           => errors' = errors]_vars

\* C12 as amended: a lookup on a receiver of type any, error or never
\* reports no diagnostic, whatever the name and the context are; on a
\* receiver of type unknown it reports one, CannotExtendTable where the
\* context is LValue and UnknownProperty where it is RValue.
C12_AmendedStep ==
    LookupStep =>
        /\ lookup.tableTy \in {"Any", "Error", "Never"} => errors' = errors
        /\ lookup.tableTy = "Unknown" =>
               /\ Len(errors') = Len(errors) + 1
               /\ SubSeq(errors', 1, Len(errors)) = errors
               /\ errors'[Len(errors')].kind =
                      IF lookup.context = "LValue" THEN "CannotExtendTable"
                      ELSE "UnknownProperty"

C12_SuppressorReceiversSilent == [][C12_AmendedStep]_vars

\* the name len was looked up for writing on a receiver of type any after an
\* earlier diagnostic, and nothing was added
C12_Witness ==
    /\ lookup.checked
    /\ lookup.tableTy = "Any"
    /\ lookup.context = "LValue"
    /\ lookup.prop = "len"
    /\ Len(errors) = 1

\* the types of the inhabited components of the receiver's normal form
InhabitedComponents ==
    {FetchList(lookup.norm)[i] : i \in {j \in DOMAIN FetchList(lookup.norm) :
                                           isInhabited(FetchList(lookup.norm)[j])}}

Carries(ty) ==
    hasIndexTypeFromType(ty, lookup.prop, {}, lookup.astIndexExprType).found

\* C13: a lookup reports at most one diagnostic.  With the receiver
\* normalized it is: none when every inhabited component carries the
\* property; MissingUnionProperty when some do and some do not;
\* CannotExtendTable{Property} when none does, the context is LValue and the
\* receiver is not a class; UnknownProperty in every remaining case.
C13_Step ==
    LookupStep =>
        /\ SubSeq(errors', 1, Len(errors)) = errors
        /\ Len(Appended) <= 1
        /\ lookup.normalized =>
             LET carriers == {ty \in InhabitedComponents : Carries(ty)}
                 expected ==
                     IF carriers = InhabitedComponents THEN "none"
                     ELSE IF carriers # {} THEN "MissingUnionProperty"
                     ELSE IF lookup.context = "LValue" /\ lookup.tableTy # "Class"
                     THEN "CannotExtendTable"
                     ELSE "UnknownProperty"
             IN  IF expected = "none" THEN Appended = <<>>
                 ELSE /\ Len(Appended) = 1
                      /\ Appended[1].kind = expected
                      /\ expected = "CannotExtendTable"
                             => Appended[1].data[2] = "Property"

C13_OneDiagnosticPerLookup == [][C13_Step]_vars

\* a receiver with a table that carries the name and a class that does not
\* was looked up, and MissingUnionProperty reported
C13_Witness ==
    /\ lookup.checked
    /\ lookup.normalized
    /\ Len(lookup.norm.classes) = 1 /\ Len(lookup.norm.tables) = 1
    /\ errors # <<>>
    /\ errors[Len(errors)].kind = "MissingUnionProperty"
    /\ Len(errors[Len(errors)].data[2]) = 1

----------------------------------------------------------------------------
(***************************************************************************)
(* The validator, TypeChecker2: type-family instances.  The arguments of   *)
(* an instance are named by their nodes: the generic T, number, a Bound    *)
(* node that forwards to T; the generic pack T..., the empty pack, a       *)
(* BoundPack that forwards to T....                                        *)
(***************************************************************************)
Families == {"add", "len"}
TypeLeaves == {"T", "number", "boundT"}
PackLeaves == {"T...", "()", "boundT..."}

\* a mutant of follow: Bound nodes are not followed
followNothing(x) == x

\* follow(TypeId) and follow(TypePackId)
follow(x) ==
    CASE x = "boundT" -> "T"
      [] x = "boundT..." -> "T..."
      [] OTHER -> x

\* TypeFamilyInstanceType and TypeFamilyInstanceTypePack
FamilyInstances(families, maxTypeArgs, maxPackArgs) ==
    [family : families,
     typeArguments : SeqsUpTo(TypeLeaves, maxTypeArgs),
     packArguments : SeqsUpTo(PackLeaves, maxPackArgs)]

RECURSIVE SameFollowed(_, _, _)
\* the loops of areEquivalent, from position i on
SameFollowed(as, bs, i) ==
    IF i > Len(as) THEN TRUE
    ELSE IF follow(as[i]) # follow(bs[i]) THEN FALSE
    ELSE SameFollowed(as, bs, i + 1)

\* areEquivalent(const T& a, const T& b)
areEquivalent(a, b) ==
    IF a.family # b.family THEN FALSE
    ELSE IF \/ Len(a.typeArguments) # Len(b.typeArguments)
            \/ Len(a.packArguments) # Len(b.packArguments)
    THEN FALSE
    ELSE IF ~SameFollowed(a.typeArguments, b.typeArguments, 1) THEN FALSE
    ELSE SameFollowed(a.packArguments, b.packArguments, 1)

\* the pack instances len<T> and len<number>, named as nodes that an
\* instance may have for a pack argument
TailNames == {"len<T>", "len<number>"}

TailInstance(name) ==
    [family |-> "len",
     typeArguments |-> IF name = "len<T>" THEN <<"T">> ELSE <<"number">>,
     packArguments |-> <<>>]

\* the types with a family instance that the expressions and the function
\* types of the model have: add<...> with at most one type argument
FamilyTypes ==
    [family : {"add"},
     typeArguments : SeqsUpTo(TypeLeaves, 1),
     packArguments : SeqsUpTo({"T..."} \cup TailNames, MaxPackArgs)]

\* the type of a function declaration, by the family types it holds
DeclTypes == [mentions : SeqsUpTo(FamilyTypes, 1)]

\* the pack instances among the arguments of ty
FamilyPacksOf(ty) ==
    SelectSeq(ty.packArguments, LAMBDA p : p \in TailNames)

\* FamilyFinder over the function types of declStack: mentionedFamilies
mentionedFamilies(declStack) ==
    UNION {Range(declStack[i].mentions) : i \in DOMAIN declStack}

\* FamilyFinder over the function types of declStack: mentionedFamilyPacks
mentionedFamilyPacks(declStack) ==
    {TailInstance(p) : p \in UNION {Range(FamilyPacksOf(ty)) :
                                       ty \in mentionedFamilies(declStack)}}

\* InternalFamilyFinder::visit: hasGeneric
hasGeneric(instance) ==
    \/ \E i \in DOMAIN instance.typeArguments : follow(instance.typeArguments[i]) = "T"
    \/ \E i \in DOMAIN instance.packArguments : follow(instance.packArguments[i]) = "T..."

\* a mutant of IsInternal: what the declarations mention is not looked at
IsInternalWhateverMentioned(instance, mentioned) == hasGeneric(instance)

\* InternalFamilyFinder::visit: the instance is put into internalFamilies
\* or internalPackFamilies
IsInternal(instance, mentioned) ==
    /\ hasGeneric(instance)
    /\ \A m \in mentioned : ~areEquivalent(instance, m)

RECURSIVE ReportInternalPacks(_, _, _, _)
\* the traversal comes to each pack instance once
ReportInternalPacks(ps, location, mentioned, errs) ==
    IF ps = <<>> THEN errs
    ELSE ReportInternalPacks(SelectSeq(Tail(ps), LAMBDA p : p # Head(ps)),
             location, mentioned,
             IF IsInternal(TailInstance(Head(ps)), mentioned)
             THEN Append(errs, TypeError("PackWhereClauseNeeded", location, <<Head(ps)>>))
             ELSE errs)

\* TypeChecker2::checkForInternalFamily, with functionDeclStack
checkForInternalFamily(ty, location, functionDeclStack, errs) ==
    ReportInternalPacks(FamilyPacksOf(ty), location,
        mentionedFamilyPacks(functionDeclStack),
        IF IsInternal(ty, mentionedFamilies(functionDeclStack))
        THEN Append(errs, TypeError("WhereClauseNeeded", location, <<ty>>))
        ELSE errs)

\* two instances to compare
FamilyStart ==
    /\ astNode \in [kind : {"areEquivalent"},
                   a : FamilyInstances(Families, MaxFamilyArgs, MaxPackArgs),
                   b : FamilyInstances(Families, MaxFamilyArgs, MaxPackArgs),
                   result : {"none"}, visited : {FALSE}]
    /\ call = <<>>
    /\ ast = <<>>
    /\ lookup = <<>>
    /\ errors = <<>>

\* a finder compares the two instances
CompareInstances ==
    /\ part = "family"
    /\ ~astNode.visited
    /\ astNode' = [astNode EXCEPT !.visited = TRUE,
                                  !.result = areEquivalent(astNode.a, astNode.b)]
    /\ UNCHANGED <<part, cloneVars, frontendVars, call, ast, lookup, errors>>

NextFamily == CompareInstances

\* the instance with every argument T and T... replaced by a Bound node
\* that forwards to it
Forwarded(instance) ==
    [instance EXCEPT
        !.typeArguments = [i \in DOMAIN @ |-> IF @[i] = "T" THEN "boundT" ELSE @[i]],
        !.packArguments = [i \in DOMAIN @ |-> IF @[i] = "T..." THEN "boundT..." ELSE @[i]]]

\* C29: areEquivalent(a, b) is true iff a and b have the same family, the
\* same numbers of type and of pack arguments and, at every position,
\* type arguments and pack arguments of equal followed identity; it is
\* reflexive and symmetric, and replacing arguments by Bound nodes that
\* forward to them does not change it.
C29_AreEquivalent ==
    part = "family" /\ astNode.visited =>
        LET a == astNode.a
            b == astNode.b
        IN  /\ astNode.result =
                  (/\ a.family = b.family
                   /\ Len(a.typeArguments) = Len(b.typeArguments)
                   /\ Len(a.packArguments) = Len(b.packArguments)
                   /\ \A i \in DOMAIN a.typeArguments :
                          follow(a.typeArguments[i]) = follow(b.typeArguments[i])
                   /\ \A i \in DOMAIN a.packArguments :
                          follow(a.packArguments[i]) = follow(b.packArguments[i]))
            /\ a = b => astNode.result
            /\ areEquivalent(b, a) = astNode.result
            /\ areEquivalent(Forwarded(a), b) = astNode.result
            /\ areEquivalent(a, Forwarded(b)) = astNode.result

\* add<T, number> was found equivalent to add<boundT, number>
C29_Witness ==
    /\ part = "family"
    /\ astNode.visited
    /\ astNode.a = [family |-> "add", typeArguments |-> <<"T", "number">>,
                    packArguments |-> <<>>]
    /\ astNode.b = [family |-> "add", typeArguments |-> <<"boundT", "number">>,
                    packArguments |-> <<>>]
    /\ astNode.result = TRUE

----------------------------------------------------------------------------
(***************************************************************************)
(* The validator, TypeChecker2: single statements and expressions.  The    *)
(* types are ground types: inference has left no free type in them, so the *)
(* Unifier writes nothing to its log.                                      *)
(***************************************************************************)
ValueTypes == {"never", "number", "string", "number | string", "any", "unknown", "error"}

\* Unifier::tryUnify(subTy, superTy): the errors and the log it is left with
UnifierTryUnify(subTy, superTy) ==
    [errors |-> IF Unifies(subTy, superTy) THEN <<>> ELSE <<"TypeMismatch">>,
     log |-> <<>>]

\* TypeChecker2::isSubtype
isSubtype(subTy, superTy) ==
    LET u == UnifierTryUnify(subTy, superTy)
    IN  u.errors = <<>> /\ u.log = <<>>

NodeLocation == <<"node", 0>>
VarLocation(i) == <<"var", i>>
ValueLocation(i) == <<"value", i>>

\* the operand expressions: a local, or x.name with x of an optional type
OperandsAt(location) ==
    {[kind |-> "Local", loc |-> location, optional |-> FALSE],
     [kind |-> "IndexName", loc |-> location, optional |-> TRUE]}

\* expr :: annotation, with the types inference stored for both
TypeAssertions ==
    [kind : {"TypeAssertion"}, expr : OperandsAt(ValueLocation(1)),
     computedType : ValueTypes, annotationType : ValueTypes, visited : {FALSE}]

\* a mutant of visitTypeAssertion: only the first direction is tried
visitTypeAssertionOneWay(expr, errs) ==
    LET e1 == visitExpr(expr.expr, errs)
    IN  IF isSubtype(expr.annotationType, expr.computedType) THEN e1
        ELSE Append(e1, TypeError("TypesAreUnrelated", NodeLocation,
                                  <<expr.computedType, expr.annotationType>>))

\* visit(AstExprTypeAssertion*)
visitTypeAssertion(expr, errs) ==
    LET e1 == visitExpr(expr.expr, errs)
    IN  IF isSubtype(expr.annotationType, expr.computedType) THEN e1
        ELSE IF isSubtype(expr.computedType, expr.annotationType) THEN e1
        ELSE Append(e1, TypeError("TypesAreUnrelated", NodeLocation,
                                  <<expr.computedType, expr.annotationType>>))

\* vars = values: the targets are locals, each with the type stored for it
Assigns ==
    [kind : {"Assign"},
     vars : UNION {[1..m -> ValueTypes] : m \in 1..MaxTargets},
     values : UNION {[1..n -> ValueTypes] : n \in 1..MaxTargets},
     optionalValue : 0..MaxTargets,
     visited : {FALSE}]

\* the i-th value expression of an assignment: x.name with x optional when
\* optionalValue is i, a local otherwise
ValueExpr(assign, i) ==
    IF assign.optionalValue = i
    THEN [kind |-> "IndexName", loc |-> ValueLocation(i), optional |-> TRUE]
    ELSE [kind |-> "Local", loc |-> ValueLocation(i), optional |-> FALSE]

\* a mutant of AssignPair: a target of type never is checked like any other
AssignPairNeverChecked(assign, i, errs) ==
    LET e1 == visitExpr([kind |-> "Local", loc |-> VarLocation(i), optional |-> FALSE], errs)
        e2 == visitExpr(ValueExpr(assign, i), e1)
    IN  IF ~isSubtype(assign.values[i], assign.vars[i])
        THEN Append(e2, TypeError("TypeMismatch", ValueLocation(i),
                                  <<assign.vars[i], assign.values[i]>>))
        ELSE e2

\* the body of the loop of visit(AstStatAssign*) for the i-th pair
AssignPair(assign, i, errs) ==
    LET e1 == visitExpr([kind |-> "Local", loc |-> VarLocation(i), optional |-> FALSE], errs)
        e2 == visitExpr(ValueExpr(assign, i), e1)
    IN  IF assign.vars[i] = "never" THEN e2
        ELSE IF ~isSubtype(assign.values[i], assign.vars[i])
        THEN Append(e2, TypeError("TypeMismatch", ValueLocation(i),
                                  <<assign.vars[i], assign.values[i]>>))
        ELSE e2

RECURSIVE AssignPairs(_, _, _, _)
AssignPairs(assign, i, count, errs) ==
    IF i > count THEN errs
    ELSE AssignPairs(assign, i + 1, count, AssignPair(assign, i, errs))

\* visit(AstStatAssign*)
visitAssign(assign, errs) ==
    LET count == IF Len(assign.vars) <= Len(assign.values)
                 THEN Len(assign.vars) ELSE Len(assign.values)
    IN  AssignPairs(assign, 1, count, errs)

\* for var: annotation = from, to, step do end; "none" is an absent
\* annotation or step
Fors ==
    [kind : {"For"},
     annotation : {"none"} \cup ValueTypes,
     from : ValueTypes, to : ValueTypes,
     step : {"none"} \cup ValueTypes,
     visited : {FALSE}]

\* the lambda checkNumber of visit(AstStatFor*)
checkNumber(ty, location, errs) ==
    IF ty = "none" THEN errs
    ELSE errs \o tryUnify(location, ty, "number")

\* a mutant of visitFor: the annotation is unified as the subtype
visitForAnnotationBelow(forStatement, errs) ==
    LET e1 == IF forStatement.annotation # "none"
              THEN errs \o tryUnify(VarLocation(1), forStatement.annotation, "number")
              ELSE errs
        e2 == checkNumber(forStatement.from, ValueLocation(1), e1)
        e3 == checkNumber(forStatement.to, ValueLocation(2), e2)
    IN  checkNumber(forStatement.step, ValueLocation(3), e3)

\* visit(AstStatFor*)
visitFor(forStatement, errs) ==
    LET e1 == IF forStatement.annotation # "none"
              THEN errs \o tryUnify(VarLocation(1), "number", forStatement.annotation)
              ELSE errs
        e2 == checkNumber(forStatement.from, ValueLocation(1), e1)
        e3 == checkNumber(forStatement.to, ValueLocation(2), e2)
    IN  checkNumber(forStatement.step, ValueLocation(3), e3)

\* the operands of a comparison: kind is what the type is ("Value" is a
\* table, a class or a primitive), mt the identity of the metatable that
\* getMetatable finds (0: none; a union has none), optionMts the metatables
\* of the options of a union
Operands ==
    {[kind |-> k, mt |-> 0, optionMts |-> {}] : k \in {"Any", "Error", "Never"}}
    \cup {[kind |-> "Value", mt |-> m, optionMts |-> {}] : m \in 0..MaxMetatables}
    \cup {[kind |-> "Union", mt |-> 0, optionMts |-> s] : s \in SUBSET (1..MaxMetatables)}

BinaryOps == {"==", "~=", "<", "<=", ">", ">=", "+"}

\* the entry of a metatable for the metamethod of the operator, and what
\* astOverloadResolvedTypes holds for the expression: nothing, a function
\* type or another type.  The types of the operands are named "left" and
\* "right"; params are the parameters of the metamethod, ret is its first
\* return type, "none" when it returns nothing.
NoMetamethod == [instantiated |-> "none", params |-> <<"left", "right">>, ret |-> "boolean"]

Metamethods ==
    {NoMetamethod, [NoMetamethod EXCEPT !.instantiated = "Other"]}
    \cup [instantiated : {"Function"},
          params : {<<"left", "right">>, <<"right", "left">>},
          ret : {"none", "boolean", "number"}]

\* left op right, with what inference and the normalizer hold for it:
\*   typesHaveIntersection  normalizer.isIntersectionInhabited(left, right)
\*   resultIsFamily         the stored result type is a TypeFamilyInstanceType
\*   mmOf                   the metatables that define the metamethod
\*   result                 the type the visit returns
\* An operand without a metatable that is no union is a number, one with a
\* metatable is a table with it, a union is one of such tables.
\* An expression whose stored result is a family type has the type in
\* expectedResult, and functionDeclStack is the validator's stack of the
\* types of the function declarations around it; the visit reads nothing
\* else of such an expression.
FamilyBinary(ty, declStack) ==
    [kind |-> "Binary", op |-> "+",
     left |-> [kind |-> "Value", mt |-> 0, optionMts |-> {}],
     right |-> [kind |-> "Value", mt |-> 0, optionMts |-> {}],
     typesHaveIntersection |-> TRUE, resultIsFamily |-> TRUE,
     expectedResult |-> <<ty>>, functionDeclStack |-> declStack,
     mmOf |-> {}, mm |-> NoMetamethod,
     result |-> "none", visited |-> FALSE]

Binaries ==
    {b \in [kind : {"Binary"}, op : BinaryOps,
            left : Operands, right : Operands,
            typesHaveIntersection : BOOLEAN, resultIsFamily : {FALSE},
            expectedResult : {<<>>}, functionDeclStack : {<<>>},
            mmOf : SUBSET (1..MaxMetatables), mm : Metamethods,
            result : {"none"}, visited : {FALSE}] :
        b.mmOf = {} => b.mm = NoMetamethod}
    \cup {FamilyBinary(ty, declStack) :
             ty \in FamilyTypes, declStack \in SeqsUpTo(DeclTypes, MaxDecls)}

\* getMetatable(type, builtinTypes)
getMetatable(operand) == operand.mt

\* the lambda testUnion of visit(AstExprBinary*)
testUnion(utv, otherMt) == otherMt \in utv.optionMts

CannotBeCompared == "cannot be compared because they do not have the same metatable"

\* a mutant of MetatablesMatch: the intersection of the types is not asked
MetatablesMatchNoIntersection(expr) ==
    LET leftMt == getMetatable(expr.left)
        rightMt == getMetatable(expr.right)
        matches == leftMt = rightMt
        isEquality == expr.op \in {"==", "~="}
    IN  IF isEquality /\ ~matches
        THEN \/ expr.left.kind = "Union" /\ rightMt # 0 /\ testUnion(expr.left, rightMt)
             \/ expr.right.kind = "Union" /\ leftMt # 0 /\ testUnion(expr.right, leftMt)
        ELSE matches

\* visit(AstExprBinary*): the value of matches when it is tested
MetatablesMatch(expr) ==
    LET leftMt == getMetatable(expr.left)
        rightMt == getMetatable(expr.right)
        matches == leftMt = rightMt
        isEquality == expr.op \in {"==", "~="}
    IN  IF isEquality /\ ~matches
        THEN \/ expr.left.kind = "Union" /\ rightMt # 0 /\ testUnion(expr.left, rightMt)
             \/ expr.right.kind = "Union" /\ leftMt # 0 /\ testUnion(expr.right, leftMt)
             \/ (leftMt = 0 \/ rightMt = 0) /\ expr.typesHaveIntersection
        ELSE matches

\* findMetatableEntry(builtinTypes, errors, type, entry, location)
findMetatableEntry(operand, mmOf) == operand.kind = "Value" /\ operand.mt \in mmOf

NoMetamethodInMetatable == "neither type's metatable has the metamethod"
CannotBeComparedRelational == "cannot be compared with relational operator"
MustReturnABoolean == "must return a boolean"
MustReturnAValue == "must return a value"

Visited(errs, ty) == [errors |-> errs, type |-> ty]

\* visit(AstExprBinary*): the arguments of the synthesized function type;
\* leftType and rightType have been swapped when the metamethod was found
\* on the right operand only
expectedArgs(expr) ==
    LET swapped == /\ ~findMetatableEntry(expr.left, expr.mmOf)
                   /\ findMetatableEntry(expr.right, expr.mmOf)
        leftType == IF swapped THEN "right" ELSE "left"
        rightType == IF swapped THEN "left" ELSE "right"
    IN  IF expr.op \in {">", ">="} THEN <<rightType, leftType>>
        ELSE <<leftType, rightType>>

\* the metatable whose entry is taken for mm: the left operand's when it
\* has one
chosenMetatable(expr) ==
    IF findMetatableEntry(expr.left, expr.mmOf)
    THEN getMetatable(expr.left) ELSE getMetatable(expr.right)

\* a mutant of isBoolean: every type passes
isBooleanAlways(ty) == TRUE

\* isBoolean(follow(*ret))
isBoolean(ty) == ty = "boolean"

\* visit(AstExprBinary*): if (mm)
visitMetamethod(expr, errs) ==
    LET isComparison == expr.op # "+"
        expectedTy == [params |-> expectedArgs(expr),
                       ret |-> IF isComparison THEN "boolean" ELSE "fresh"]
        unifies == /\ expr.mm.params = expectedTy.params
                   /\ expr.mm.ret # "none"
                   /\ isComparison => expr.mm.ret = "boolean"
        e1 == IF unifies THEN errs
              ELSE Append(errs, TypeError("TypeMismatch", NodeLocation,
                                          <<expectedTy, [metatable |-> chosenMetatable(expr),
                                                         params |-> expr.mm.params,
                                                         ret |-> expr.mm.ret]>>))
    IN  CASE expr.mm.instantiated = "none" -> Visited(errs, "expectedResult")
          [] expr.mm.instantiated = "Other" ->
                 Visited(reportError(errs, "CannotCallNonFunction", NodeLocation),
                         "errorRecoveryType")
          [] OTHER ->
                 IF expr.mm.ret # "none"
                 THEN IF isComparison
                      THEN Visited(IF ~isBoolean(expr.mm.ret)
                                   THEN Append(e1, TypeError("GenericError", NodeLocation,
                                                             <<MustReturnABoolean>>))
                                   ELSE e1,
                                   "booleanType")
                      ELSE Visited(e1, expr.mm.ret)
                 ELSE Visited(Append(e1, TypeError("GenericError", NodeLocation,
                                         <<IF isComparison THEN MustReturnABoolean
                                           ELSE MustReturnAValue>>)),
                              "errorRecoveryType")

\* visit(AstExprBinary*): the switch over the operator
visitPrimitive(expr, errs) ==
    LET isNumber(operand) == operand.kind = "Value"
        unifyNumber(operand, location, e) ==
            IF isNumber(operand) THEN e
            ELSE Append(e, TypeError("TypeMismatch", location, <<"number", "union">>))
    IN  CASE expr.op = "+" ->
                 Visited(unifyNumber(expr.right, ValueLocation(2),
                             unifyNumber(expr.left, ValueLocation(1), errs)),
                         "numberType")
          [] expr.op \in {"<", "<=", ">", ">="} ->
                 IF isNumber(expr.left)
                 THEN Visited(unifyNumber(expr.right, ValueLocation(2), errs), "numberType")
                 ELSE Visited(Append(errs, TypeError("GenericError", NodeLocation,
                                                     <<CannotBeComparedRelational>>)),
                              "errorRecoveryType")
          [] OTHER -> Visited(errs, "anyType")

\* TypeChecker2::visit(AstExprBinary*); visiting the operands reports
\* nothing of its own
visitBinary(expr, errs) ==
    LET isEquality == expr.op \in {"==", "~="}
        isComparison == expr.op # "+"
    IN  IF expr.resultIsFamily
        THEN Visited(checkForInternalFamily(expr.expectedResult[1], NodeLocation,
                                            expr.functionDeclStack, errs),
                     "expectedResult")
        ELSE IF expr.left.kind \in {"Any", "Error", "Never"} THEN Visited(errs, "leftType")
        ELSE IF expr.right.kind \in {"Any", "Error", "Never"} THEN Visited(errs, "rightType")
        ELSE IF ~MetatablesMatch(expr) /\ isComparison
        THEN Visited(Append(errs, TypeError("GenericError", NodeLocation, <<CannotBeCompared>>)),
                     "errorRecoveryType")
        ELSE IF \/ findMetatableEntry(expr.left, expr.mmOf)
                \/ findMetatableEntry(expr.right, expr.mmOf)
        THEN visitMetamethod(expr, errs)
        ELSE IF ~isEquality /\ (getMetatable(expr.left) # 0 \/ getMetatable(expr.right) # 0)
        THEN Visited(Append(errs, TypeError("GenericError", NodeLocation,
                                            <<NoMetamethodInMetatable>>)),
                     "errorRecoveryType")
        ELSE visitPrimitive(expr, errs)

\* local vars = values.  vars holds the annotation of each local, "none"
\* for none; values the types of the value expressions; lastValue says
\* what the last value expression is; packHead and packVariadic are the
\* pack stored for it when it is a call or varargs.  Visiting a value
\* expression reports nothing of its own.
LocalTypes == {"number", "string"}

Locals ==
    {l \in [kind : {"Local"},
            vars : UNION {[1..m -> LocalTypes \cup {"none"}] : m \in 1..MaxTargets},
            values : UNION {[1..n -> LocalTypes] : n \in 0..(MaxTargets + 1)},
            lastValue : {"expr", "call", "varargs"},
            packHead : SeqsUpTo(LocalTypes, MaxTargets),
            packVariadic : BOOLEAN,
            visited : {FALSE}] :
        /\ l.values = <<>> => l.lastValue = "expr"
        /\ l.lastValue = "expr" => l.packHead = <<>> /\ ~l.packVariadic}

DefaultLocation == <<"none", 0>>

\* a - b on size_t: the difference wraps around; the sizes of the model
\* stay far below the modulus whatever the width
SizeSub(a, b) ==
    LET modulus == 2^30
    IN  (a - b + modulus) % modulus

\* extendTypePack(arena, builtinTypes, pack, length).head for a pack with a
\* finite head and, when variadic, a tail of numbers
extendTypePack(head, variadic, length) ==
    [j \in 1..(IF variadic THEN length ELSE Min({Len(head), length})) |->
        IF j <= Len(head) THEN head[j] ELSE "number"]

\* visit(AstStatLocal*): the positional branch for index i (from 0)
LocalPositional(local, i, errs) ==
    IF /\ i < Len(local.vars) /\ local.vars[i + 1] # "none"
       /\ i < Len(local.values)
    THEN errs \o tryUnify(ValueLocation(i + 1), local.values[i + 1], local.vars[i + 1])
    ELSE errs

RECURSIVE LocalTailUnify(_, _, _, _, _)
\* the inner loop over the locals j >= i that the pack has a value for
LocalTailUnify(local, valueTypes, i, j, errs) ==
    IF j >= Len(local.vars) \/ j - i >= Len(valueTypes) THEN errs
    ELSE LocalTailUnify(local, valueTypes, i, j + 1,
             IF local.vars[j + 1] # "none"
             THEN errs \o tryUnify(ValueLocation(i + 1), valueTypes[j - i + 1], local.vars[j + 1])
             ELSE errs)

\* the location the inner loop leaves in errorLocation
LocalErrorLocation(local, valueTypes, i) ==
    IF i + Len(valueTypes) < Len(local.vars)
    THEN VarLocation(i + Len(valueTypes) + 1)
    ELSE DefaultLocation

LocalCountMismatch(local, valueTypes, i) ==
    TypeError("CountMismatch", LocalErrorLocation(local, valueTypes, i),
              [expected |-> Len(local.values) - 1 + Len(valueTypes),
               actual |-> Len(local.vars),
               context |-> IF local.lastValue = "call"
                           THEN "FunctionResult" ELSE "ExprListResult"])

\* visit(AstStatLocal*): the branch of the last value when it is a pack
LocalTail(local, i, errs) ==
    LET valueTypes == IF i < Len(local.vars)
                      THEN extendTypePack(local.packHead, local.packVariadic,
                                          SizeSub(Len(local.vars), i))
                      ELSE <<>>
        e1 == LocalTailUnify(local, valueTypes, i, i, errs)
    IN  IF Len(valueTypes) < SizeSub(Len(local.vars), i)
        THEN Append(e1, LocalCountMismatch(local, valueTypes, i))
        ELSE e1

RECURSIVE LocalLoop(_, _, _, _)
LocalLoop(local, i, count, errs) ==
    IF i >= count THEN errs
    ELSE LET isPack == i < Len(local.values) /\ local.lastValue # "expr"
                       /\ i = Len(local.values) - 1
         IN  LocalLoop(local, i + 1, count,
                 IF i # SizeSub(Len(local.values), 1) \/ ~isPack
                 THEN LocalPositional(local, i, errs)
                 ELSE LocalTail(local, i, errs))

\* visit(AstStatLocal*)
visitLocal(local, errs) ==
    LocalLoop(local, 0, Max(Len(local.values), Len(local.vars)), errs)

\* function ... end with the inferred type of the function, what the
\* normalizer makes of it, whether the annotated parameter is above the
\* inferred one, the validator's functionDeclStack on entry, and for body
\* the binary expression of the body whose stored result is a family type,
\* if there is one.  A normalized type that holds an error is not checked;
\* one that is no function does not come from inference.
Functions ==
    {fn \in [kind : {"Function"},
             inferredFnTy : DeclTypes,
             normalized : {"TooComplex", "Error", "Function"},
             argFits : BOOLEAN,
             functionDeclStack : SeqsUpTo(DeclTypes, MaxDecls - 1),
             body : SeqsUpTo(FamilyTypes, 1),
             visited : {FALSE}] :
        ~fn.argFits => fn.normalized = "Function"}

\* visit(AstExprFunction*)
visitFunction(fn, errs) ==
    LET functionDeclStack == Append(fn.functionDeclStack, fn.inferredFnTy)
        e1 == CASE fn.normalized = "TooComplex" ->
                       reportError(errs, "CodeTooComplex", NodeLocation)
                [] fn.normalized = "Function" /\ ~fn.argFits ->
                       reportError(errs, "TypeMismatch", ArgLocation(1))
                [] OTHER -> errs
    IN  IF fn.body = <<>> THEN e1
        ELSE visitBinary(FamilyBinary(fn.body[1], functionDeclStack), e1).errors

\* expr[index] with an index that is no string literal (a literal goes to
\* visitExprName): the type of expr is a table or a class, with the key
\* type of its indexer or "none", a union, optional or not, or a number;
\* indexType is the type of the index.  Visiting expr and index reports
\* nothing of its own.
IndexExprs ==
    {e \in [kind : {"IndexExpr"},
            exprType : {"Table", "Class", "Union", "Number"},
            indexer : {"none", "number", "string"},
            optional : BOOLEAN,
            indexType : {"number", "string", "any"},
            visited : {FALSE}] :
        /\ e.indexer # "none" => e.exprType \in {"Table", "Class"}
        /\ e.optional => e.exprType = "Union"}

\* visit(AstExprIndexExpr*, ValueContext)
visitIndexExpr(indexExpr, errs) ==
    CASE indexExpr.exprType = "Table" ->
             IF indexExpr.indexer # "none"
             THEN errs \o tryUnify(ValueLocation(2), indexExpr.indexType, indexExpr.indexer)
             ELSE Append(errs, TypeError("CannotExtendTable", NodeLocation, <<"Indexer">>))
      [] indexExpr.exprType = "Class" /\ indexExpr.indexer # "none" ->
             errs \o tryUnify(ValueLocation(2), indexExpr.indexType, indexExpr.indexer)
      [] indexExpr.exprType = "Union" /\ indexExpr.optional ->
             reportError(errs, "OptionalValueAccess", NodeLocation)
      [] OTHER -> errs

\* TypeChecker2::visit(AstStat*) and visit(AstExpr*, ValueContext)
visitNode(n, errs) ==
    CASE n.kind = "TypeAssertion" -> visitTypeAssertion(n, errs)
      [] n.kind = "Assign" -> visitAssign(n, errs)
      [] n.kind = "For" -> visitFor(n, errs)
      [] n.kind = "Binary" -> visitBinary(n, errs).errors
      [] n.kind = "Local" -> visitLocal(n, errs)
      [] n.kind = "IndexExpr" -> visitIndexExpr(n, errs)
      [] n.kind = "Function" -> visitFunction(n, errs)

NodeStart ==
    /\ astNode \in TypeAssertions \cup Assigns \cup Fors \cup Binaries \cup Locals
                 \cup IndexExprs \cup Functions
    /\ call = <<>>
    /\ ast = <<>>
    /\ lookup = <<>>
    /\ errors \in EarlierErrors

\* the validator comes to the node
VisitNode ==
    /\ part = "node"
    /\ ~astNode.visited
    /\ errors' = visitNode(astNode, errors)
    /\ astNode' = IF astNode.kind = "Binary"
                  THEN [astNode EXCEPT !.visited = TRUE,
                                       !.result = visitBinary(astNode, errors).type]
                  ELSE [astNode EXCEPT !.visited = TRUE]
    /\ UNCHANGED <<part, cloneVars, frontendVars, call, ast, lookup>>

NextNode == VisitNode

NodeStep(kind) == astNode.kind = kind /\ ~astNode.visited /\ astNode'.visited

\* the number of the diagnostics appended by the step that have the kind
\* and the location
CountAppended(kind, location) ==
    Cardinality({i \in DOMAIN Appended :
                     Appended[i].kind = kind /\ Appended[i].loc = location})

AppendedAt(location) == {i \in DOMAIN Appended : Appended[i].loc = location}

\* C15: for expr :: T exactly one TypesAreUnrelated is reported at the
\* assertion when neither the annotation type is a subtype of the type of
\* the expression nor that type a subtype of the annotation type, and none
\* when either direction holds.
C15_Step ==
    NodeStep("TypeAssertion") =>
        /\ SubSeq(errors', 1, Len(errors)) = errors
        /\ AppendedAt(NodeLocation) =
               {i \in DOMAIN Appended : Appended[i].kind = "TypesAreUnrelated"}
        /\ CountAppended("TypesAreUnrelated", NodeLocation) =
               IF \/ Unifies(astNode.annotationType, astNode.computedType)
                  \/ Unifies(astNode.computedType, astNode.annotationType)
               THEN 0 ELSE 1

C15_AssertionEitherDirection == [][C15_Step]_vars

\* x :: string with x of type number was visited and TypesAreUnrelated
\* reported, and x :: number with x of type number | string was not
C15_Witness ==
    /\ astNode.kind = "TypeAssertion"
    /\ astNode.visited
    /\ astNode.computedType = "number" /\ astNode.annotationType = "string"
    /\ errors # <<>>
    /\ errors[Len(errors)].kind = "TypesAreUnrelated"

\* C16: of an assignment with m targets and n values the first min(m, n)
\* pairs are checked and no other target or value is looked at; for a
\* checked pair one TypeMismatch is reported at the value when the target's
\* type is not never and the value's type is not a subtype of it, and none
\* otherwise.
C16_Step ==
    NodeStep("Assign") =>
        LET m == Len(astNode.vars)
            n == Len(astNode.values)
            count == IF m <= n THEN m ELSE n
        IN  /\ SubSeq(errors', 1, Len(errors)) = errors
            /\ \A i \in 1..count :
                   CountAppended("TypeMismatch", ValueLocation(i)) =
                       IF /\ astNode.vars[i] # "never"
                          /\ ~Unifies(astNode.values[i], astNode.vars[i])
                       THEN 1 ELSE 0
            /\ \A i \in (count + 1)..MaxTargets :
                   AppendedAt(ValueLocation(i)) \cup AppendedAt(VarLocation(i)) = {}

C16_AssignmentPairs == [][C16_Step]_vars

\* an assignment of two values to one target of type never was visited: the
\* first value, a string, is not reported and the second value, an optional
\* access, is not looked at
C16_Witness ==
    /\ astNode.kind = "Assign"
    /\ astNode.visited
    /\ Len(astNode.vars) = 1 /\ Len(astNode.values) = 2
    /\ astNode.vars[1] = "never" /\ astNode.values[1] = "string"
    /\ astNode.optionalValue = 2
    /\ errors = <<>>

\* C17: in a numeric for a mismatch is reported whenever the annotated type
\* of the loop variable is not a subtype of number and whenever the type of
\* a present from, to or step is not a subtype of number; an absent step and
\* an unannotated loop variable report nothing.
C17_Step ==
    NodeStep("For") =>
        /\ (astNode.annotation # "none" /\ ~Unifies(astNode.annotation, "number"))
               => CountAppended("TypeMismatch", VarLocation(1)) >= 1
        /\ ~Unifies(astNode.from, "number")
               => CountAppended("TypeMismatch", ValueLocation(1)) >= 1
        /\ ~Unifies(astNode.to, "number")
               => CountAppended("TypeMismatch", ValueLocation(2)) >= 1
        /\ (astNode.step # "none" /\ ~Unifies(astNode.step, "number"))
               => CountAppended("TypeMismatch", ValueLocation(3)) >= 1
        /\ astNode.step = "none" => AppendedAt(ValueLocation(3)) = {}
        /\ astNode.annotation = "none" => AppendedAt(VarLocation(1)) = {}

C17_NumericForBelowNumber == [][C17_Step]_vars

\* C17 as amended: in a numeric for a mismatch is reported whenever number
\* is not a subtype of the annotated type of the loop variable and whenever
\* the type of a present from, to or step is not a subtype of number; an
\* absent step and an unannotated loop variable report nothing.
C17_AmendedStep ==
    NodeStep("For") =>
        /\ (astNode.annotation # "none" /\ ~Unifies("number", astNode.annotation))
               => CountAppended("TypeMismatch", VarLocation(1)) >= 1
        /\ ~Unifies(astNode.from, "number")
               => CountAppended("TypeMismatch", ValueLocation(1)) >= 1
        /\ ~Unifies(astNode.to, "number")
               => CountAppended("TypeMismatch", ValueLocation(2)) >= 1
        /\ (astNode.step # "none" /\ ~Unifies(astNode.step, "number"))
               => CountAppended("TypeMismatch", ValueLocation(3)) >= 1
        /\ astNode.step = "none" => AppendedAt(ValueLocation(3)) = {}
        /\ astNode.annotation = "none" => AppendedAt(VarLocation(1)) = {}

C17_NumericForNumberFits == [][C17_AmendedStep]_vars

\* for i: string = 1, "a" do end was visited: the annotation and to are
\* reported, from is not, and there is no step
C17_Witness ==
    /\ astNode.kind = "For"
    /\ astNode.visited
    /\ astNode.annotation = "string" /\ astNode.from = "number"
    /\ astNode.to = "string" /\ astNode.step = "none"
    /\ Len(errors) = 2
    /\ errors[1].loc = VarLocation(1) /\ errors[2].loc = ValueLocation(2)

ReportsCannotBeCompared ==
    \E i \in DOMAIN Appended :
        Appended[i].kind = "GenericError" /\ Appended[i].data = <<CannotBeCompared>>

EqualityStep ==
    /\ NodeStep("Binary")
    /\ astNode.op \in {"==", "~="}
    /\ astNode.left.kind \notin {"Any", "Error", "Never"}
    /\ astNode.right.kind \notin {"Any", "Error", "Never"}

\* C19: for == and ~= on operands neither of which is any, error or never
\* the "cannot be compared" error is not reported when the operands have the
\* same metatable identity, or one of them has no metatable, or the
\* intersection of their types is inhabited.
C19_Step ==
    (/\ EqualityStep
     /\ \/ getMetatable(astNode.left) = getMetatable(astNode.right)
        \/ getMetatable(astNode.left) = 0
        \/ getMetatable(astNode.right) = 0
        \/ astNode.typesHaveIntersection)
    => ~ReportsCannotBeCompared

C19_EqualityAnyOfThree == [][C19_Step]_vars

\* C19 as amended: for == and ~= on operands neither of which is any, error
\* or never the "cannot be compared" error is not reported when the operands
\* have the same metatable identity (none on either side included), or when
\* at least one of them has no metatable and the intersection of their types
\* is inhabited; it is reported only when neither holds.
C19_AmendedStep ==
    (/\ EqualityStep
     /\ \/ getMetatable(astNode.left) = getMetatable(astNode.right)
        \/ /\ getMetatable(astNode.left) = 0 \/ getMetatable(astNode.right) = 0
           /\ astNode.typesHaveIntersection)
    => ~ReportsCannotBeCompared

C19_EqualityMetatables == [][C19_AmendedStep]_vars

\* a value with a metatable was compared with a value without one whose
\* type has inhabitants in common with it, and nothing was reported
C19_Witness ==
    /\ astNode.kind = "Binary"
    /\ astNode.visited
    /\ astNode.op = "=="
    /\ astNode.left.kind = "Value" /\ astNode.left.mt = 1
    /\ astNode.right.kind = "Value" /\ astNode.right.mt = 0
    /\ astNode.typesHaveIntersection
    /\ ~astNode.resultIsFamily
    /\ Len(errors) = 1

----------------------------------------------------------------------------
(***************************************************************************)
(* Properties of visitCall on unions and intersections.                    *)
(***************************************************************************)
CallStep(original) ==
    part = "call" /\ ~call.visited /\ call'.visited /\ call.original = original

\* the call of the function itself, with the same arguments and the same
\* stored overload-resolved type
AsFunctionCall(c) ==
    [original |-> "Function", selected |-> c.selected, formals |-> c.formals,
     retOk |-> c.retOk, head |-> c.head, tail |-> c.tail, visited |-> FALSE]

\* the options of the union share one identity, that of a function
SharedFunction(c) ==
    /\ \A i \in DOMAIN c.options : c.options[i] = c.options[1]
    /\ c.options[1] \in {"F", "G"}

\* C22: for a callee whose original call type is a union without __call: an
\* optional union gives exactly one OptionalValueAccess and nothing more;
\* otherwise options of different identity, or a shared option that is no
\* function, give exactly one CannotCallNonFunction and nothing more;
\* otherwise the call is checked as a call of the shared function is.
C22_Step ==
    CallStep("Union") =>
        CASE call.optional ->
                 Appended = <<TypeError("OptionalValueAccess", CallLocation, <<>>)>>
          [] ~call.optional /\ ~SharedFunction(call) ->
                 Appended = <<TypeError("CannotCallNonFunction", FuncLocation, <<>>)>>
          [] OTHER -> Appended = visitCall(AsFunctionCall(call))

C22_UnionCallee == [][C22_Step]_vars

\* the diagnostics of a kind among those the step appended
AppendedOfKind(kind) == SelectSeq(Appended, LAMBDA e : e.kind = kind)

\* visitCall comes to the arguments of the call: the callee is a function,
\* an intersection with functions, or a union of one function
Callable(c) ==
    \/ c.original = "Function"
    \/ c.original = "Intersection" /\ c.hasFunctions
    \/ c.original = "Union" /\ ~c.optional /\ SharedFunction(c)

\* the places in overloads of the functions that take n parameters
ArityMatching(overloads, n) ==
    {i \in DOMAIN overloads : overloads[i].function /\ overloads[i].arity = n}

\* C23: for a callable callee without a stored overload-resolved type
\* exactly one GenericError is reported, "No overload accepts N arguments"
\* when no overload takes N parameters (N the number of arguments) and "None
\* of the overloads are compatible" otherwise, and one ExtraInformation, the
\* last diagnostic of the call, that lists the overloads of N parameters
\* when there is one and all the overloads otherwise.
C23_Step ==
    (/\ part = "call" /\ ~call.visited /\ call'.visited
     /\ Callable(call)
     /\ call.selected = "none")
    =>
    LET overloads == Overloads(call)
        matching == ArityMatching(overloads, Len(call.head))
    IN  /\ Len(AppendedOfKind("GenericError")) = 1
        /\ AppendedOfKind("GenericError")[1].data =
               <<IF matching = {}
                 THEN "No overload accepts the arguments"
                 ELSE "None of the overloads are compatible">>
        /\ Len(AppendedOfKind("ExtraInformation")) = 1
        /\ Appended[Len(Appended)].kind = "ExtraInformation"
        /\ Appended[Len(Appended)].data =
               IF matching = {} THEN overloads
               ELSE SelectSeq(overloads,
                              LAMBDA o : o.function /\ o.arity = Len(call.head))

C23_NoOverloadReport == [][C23_Step]_vars

\* a call with one argument of an intersection of a function of one
\* parameter and a function of two was visited without a stored
\* overload-resolved type, after an earlier diagnostic
C23_Witness ==
    /\ part = "call"
    /\ call.visited
    /\ call.original = "Intersection" /\ call.hasFunctions
    /\ call.selected = "none"
    /\ call.overloads = <<Overload(TRUE, 1), Overload(TRUE, 2)>>
    /\ Len(call.head) = 1
    /\ Len(errors) = 3
    /\ errors[3].kind = "ExtraInformation"
    /\ errors[3].data = <<Overload(TRUE, 1)>>

----------------------------------------------------------------------------
(***************************************************************************)
(* Properties of the visit of a local statement, AstStatLocal.            *)
(***************************************************************************)
\* the locals the positional values leave to the last value, and the
\* values its pack has for them
LocalsToBind(local) ==
    IF Len(local.vars) > Len(local.values) - 1
    THEN Len(local.vars) - (Len(local.values) - 1) ELSE 0

Supplied(local) ==
    IF local.packVariadic THEN LocalsToBind(local)
    ELSE Min({Len(local.packHead), LocalsToBind(local)})

\* C24: in a local statement whose last value is a call or varargs, when
\* the pack of the last value has fewer values than the locals still to
\* bind exactly one CountMismatch is reported, at the first local left
\* without a value, with expected = the number of value expressions - 1 +
\* the number of values of the pack, actual = the number of locals and
\* context FunctionResult for a call, ExprListResult for varargs; when the
\* pack has enough values no CountMismatch is reported.
C24_Step ==
    NodeStep("Local") /\ astNode.lastValue # "expr" =>
        LET supplied == Supplied(astNode)
            reported == AppendedOfKind("CountMismatch")
        IN  IF supplied < LocalsToBind(astNode)
            THEN reported =
                   <<TypeError("CountMismatch",
                               VarLocation(Len(astNode.values) + supplied),
                               [expected |-> Len(astNode.values) - 1 + supplied,
                                actual |-> Len(astNode.vars),
                                context |-> IF astNode.lastValue = "call"
                                            THEN "FunctionResult"
                                            ELSE "ExprListResult"])>>
            ELSE reported = <<>>

C24_LocalCountMismatch == [][C24_Step]_vars

----------------------------------------------------------------------------
(***************************************************************************)
(* Properties of the visit of a binary expression with a metamethod.       *)
(***************************************************************************)
\* the visit comes to the metamethod and finds a function type stored for
\* the expression
ResolvedThroughMetamethod(expr) ==
    /\ ~expr.resultIsFamily
    /\ expr.left.kind \notin {"Any", "Error", "Never"}
    /\ expr.right.kind \notin {"Any", "Error", "Never"}
    /\ expr.op # "+" => MetatablesMatch(expr)
    /\ \/ findMetatableEntry(expr.left, expr.mmOf)
       \/ findMetatableEntry(expr.right, expr.mmOf)
    /\ expr.mm.instantiated = "Function"

\* the metamethod as a function type fits the arguments args and the
\* result the operator asks for
Fits(expr, args) ==
    /\ expr.mm.params = args
    /\ expr.mm.ret # "none"
    /\ expr.op # "+" => expr.mm.ret = "boolean"

\* C25: the metamethod of a binary operator is the left operand's when
\* both metatables define it, and it is unified against a function type
\* whose arguments are (left, right) in source order, (right, left) for >
\* and >=, also when the metamethod was found on the right operand only:
\* a TypeMismatch is reported at the expression exactly when the
\* metamethod does not fit these arguments, and it names them and the
\* entry of the metatable chosen.
C25_Step ==
    NodeStep("Binary") /\ ResolvedThroughMetamethod(astNode) =>
        LET args == IF astNode.op \in {">", ">="}
                    THEN <<"right", "left">> ELSE <<"left", "right">>
            mismatches == AppendedOfKind("TypeMismatch")
        IN  IF Fits(astNode, args) THEN mismatches = <<>>
            ELSE /\ Len(mismatches) = 1
                 /\ mismatches[1].loc = NodeLocation
                 /\ mismatches[1].data[1].params = args
                 /\ mismatches[1].data[2].metatable =
                        IF findMetatableEntry(astNode.left, astNode.mmOf)
                        THEN astNode.left.mt ELSE astNode.right.mt

C25_MetamethodArguments == [][C25_Step]_vars

ComparisonThroughMetamethod ==
    /\ NodeStep("Binary")
    /\ astNode.op # "+"
    /\ ResolvedThroughMetamethod(astNode)

ReportsMustReturnABoolean ==
    \E i \in DOMAIN Appended :
        /\ Appended[i].kind = "GenericError"
        /\ Appended[i].loc = NodeLocation
        /\ Appended[i].data = <<MustReturnABoolean>>

\* C26: a comparison resolved through a metamethod whose instantiated type
\* is a function has the result type boolean in every case, and the
\* GenericError 'must return a boolean' is reported iff the first return
\* type of the metamethod is missing or is not boolean.
C26_Step ==
    ComparisonThroughMetamethod =>
        /\ astNode'.result = "booleanType"
        /\ ReportsMustReturnABoolean <=> astNode.mm.ret # "boolean"

C26_ComparisonIsBoolean == [][C26_Step]_vars

\* C26 as amended: the result type is boolean when the metamethod has a
\* first return type and the error-recovery type when it has none; the
\* GenericError 'must return a boolean' is reported, once, iff the first
\* return type is missing or is not boolean.
C26_AmendedStep ==
    ComparisonThroughMetamethod =>
        /\ astNode'.result = IF astNode.mm.ret = "none"
                             THEN "errorRecoveryType" ELSE "booleanType"
        /\ ReportsMustReturnABoolean <=> astNode.mm.ret # "boolean"
        /\ Len(AppendedOfKind("GenericError")) <= 1

C26_ComparisonBooleanUnlessNoReturn == [][C26_AmendedStep]_vars

\* a < b went through __lt, which returns a number: the error is reported
\* and the result is boolean
C26_Witness ==
    /\ astNode.kind = "Binary"
    /\ astNode.visited
    /\ astNode.op = "<"
    /\ astNode.left.kind = "Value" /\ astNode.left.mt = 1
    /\ astNode.right.kind = "Value" /\ astNode.right.mt = 1
    /\ astNode.mmOf = {1}
    /\ astNode.mm.instantiated = "Function" /\ astNode.mm.ret = "number"
    /\ ~astNode.resultIsFamily
    /\ astNode.result = "booleanType"
    /\ Len(errors) >= 1
    /\ errors[Len(errors)].data = <<MustReturnABoolean>>

----------------------------------------------------------------------------
(***************************************************************************)
(* Properties of the visit of an index expression.                         *)
(***************************************************************************)
\* C27: for t[e] with e no string literal, the type of e is unified
\* against the key type of the indexer when the receiver is a table or a
\* class with an indexer; CannotExtendTable{Indexer} is reported when the
\* receiver, table or class, has no indexer; OptionalValueAccess is
\* reported when the receiver is an optional union.
C27_Step ==
    NodeStep("IndexExpr") =>
        /\ astNode.exprType \in {"Table", "Class"} /\ astNode.indexer # "none" =>
               Appended = IF Unifies(astNode.indexType, astNode.indexer) THEN <<>>
                          ELSE <<TypeError("TypeMismatch", ValueLocation(2),
                                           <<astNode.indexer, astNode.indexType>>)>>
        /\ astNode.exprType \in {"Table", "Class"} /\ astNode.indexer = "none" =>
               Appended = <<TypeError("CannotExtendTable", NodeLocation, <<"Indexer">>)>>
        /\ astNode.exprType = "Union" /\ astNode.optional =>
               Appended = <<TypeError("OptionalValueAccess", NodeLocation, <<>>)>>

C27_IndexByExpression == [][C27_Step]_vars

----------------------------------------------------------------------------
(***************************************************************************)
(* Properties of the check for internal type families.                     *)
(***************************************************************************)
\* an instance equivalent to the instance is among the family types of the
\* function types of declStack, or among their pack arguments
MentionedIn(instance, declStack) ==
    \E i \in DOMAIN declStack : \E j \in DOMAIN declStack[i].mentions :
        LET m == declStack[i].mentions[j]
        IN  \/ areEquivalent(instance, m)
            \/ \E k \in DOMAIN m.packArguments :
                   /\ m.packArguments[k] \in TailNames
                   /\ instance.family = "len"
                   /\ areEquivalent(instance, TailInstance(m.packArguments[k]))

NeedsWhereClause(instance, declStack) ==
    /\ \/ "T" \in {follow(a) : a \in Range(instance.typeArguments)}
       \/ "T..." \in {follow(a) : a \in Range(instance.packArguments)}
    /\ ~MentionedIn(instance, declStack)

\* WhereClauseNeeded was reported for the type instance, once
ReportedFor(ty) ==
    AppendedOfKind("WhereClauseNeeded") =
        <<TypeError("WhereClauseNeeded", NodeLocation, <<ty>>)>>

\* PackWhereClauseNeeded was reported for the pack instance, once
PackReportedFor(name) ==
    Cardinality({i \in DOMAIN Appended :
                    /\ Appended[i].kind = "PackWhereClauseNeeded"
                    /\ Appended[i].loc = NodeLocation
                    /\ Appended[i].data = <<name>>}) = 1

NothingReportedFor(name) ==
    \A i \in DOMAIN Appended :
        Appended[i].kind = "PackWhereClauseNeeded" => Appended[i].data # <<name>>

PackInstancesOf(ty) == {p \in Range(ty.packArguments) : p \in TailNames}

\* C28: the visit of a function declaration reports WhereClauseNeeded for
\* every family instance of the inferred type of the function that has a
\* generic argument and is equivalent to no instance mentioned in the
\* types of the enclosing function declarations, PackWhereClauseNeeded for
\* a pack instance; the other instances are not reported.
C28_Step ==
    NodeStep("Function") =>
        \A j \in DOMAIN astNode.inferredFnTy.mentions :
            LET ty == astNode.inferredFnTy.mentions[j]
            IN  /\ IF NeedsWhereClause(ty, astNode.functionDeclStack)
                   THEN ReportedFor(ty)
                   ELSE AppendedOfKind("WhereClauseNeeded") = <<>>
                /\ \A p \in PackInstancesOf(ty) :
                       IF NeedsWhereClause(TailInstance(p), astNode.functionDeclStack)
                       THEN PackReportedFor(p) ELSE NothingReportedFor(p)

C28_FunctionDeclarationScanned == [][C28_Step]_vars

\* the reports for an expression whose stored result is the family type
\* ty, under the function declarations of declStack
ReportedExactly(ty, declStack) ==
    /\ IF NeedsWhereClause(ty, declStack)
       THEN ReportedFor(ty)
       ELSE AppendedOfKind("WhereClauseNeeded") = <<>>
    /\ \A p \in PackInstancesOf(ty) :
           IF NeedsWhereClause(TailInstance(p), declStack)
           THEN PackReportedFor(p) ELSE NothingReportedFor(p)
    /\ Len(AppendedOfKind("PackWhereClauseNeeded")) <= Cardinality(PackInstancesOf(ty))

\* C28 as amended: the visit of a binary expression whose stored result
\* type is a type-family instance reports, at the expression, exactly
\* WhereClauseNeeded for the instance and PackWhereClauseNeeded for the
\* pack instances among its arguments that have a generic argument and are
\* equivalent to no instance mentioned in the types of the function
\* declarations around the expression, the innermost included; the visit
\* of a function declaration reports nothing else of the two kinds than
\* what the visit of such an expression of its body does.
C28_AmendedStep ==
    /\ NodeStep("Binary") /\ astNode.resultIsFamily =>
           ReportedExactly(astNode.expectedResult[1], astNode.functionDeclStack)
    /\ NodeStep("Function") =>
           IF astNode.body = <<>>
           THEN /\ AppendedOfKind("WhereClauseNeeded") = <<>>
                /\ AppendedOfKind("PackWhereClauseNeeded") = <<>>
           ELSE ReportedExactly(astNode.body[1],
                    Append(astNode.functionDeclStack, astNode.inferredFnTy))

C28_ExpressionScanned == [][C28_AmendedStep]_vars

\* in a function whose type mentions no family type, inside a function
\* that mentions add<number>, an expression of type add<T, len<T>> was
\* visited: both instances were reported
C28_Witness ==
    /\ astNode.kind = "Function"
    /\ astNode.visited
    /\ astNode.inferredFnTy.mentions = <<>>
    /\ Len(astNode.functionDeclStack) = 1
    /\ astNode.functionDeclStack[1].mentions =
           <<[family |-> "add", typeArguments |-> <<"number">>, packArguments |-> <<>>]>>
    /\ astNode.body =
           <<[family |-> "add", typeArguments |-> <<"T">>, packArguments |-> <<"len<T>">>]>>
    /\ Len(errors) = 2
    /\ errors[1].kind = "WhereClauseNeeded"
    /\ errors[2].kind = "PackWhereClauseNeeded"

----------------------------------------------------------------------------
(***************************************************************************)
(* The validator, TypeChecker2: findInnermostScope.  module->scopes is the *)
(* list of the spans of the scope tree: the first entry is the module      *)
(* scope, whose span is the whole source, and two spans are nested or      *)
(* apart.  A scope is named by its place in the list.                      *)
(***************************************************************************)
\* Location{begin, end} with begin <= end, over the positions 0..MaxPos
Locations == {l \in [begin : 0..MaxPos, end : 0..MaxPos] : l.begin <= l.end}

\* Location::encloses
encloses(bounds, l) == bounds.begin <= l.begin /\ l.end <= bounds.end

\* two spans of a scope tree: one inside the other, or one after the other
Nested(a, b) ==
    \/ encloses(a, b) \/ encloses(b, a)
    \/ a.end < b.begin \/ b.end < a.begin

\* the lists module->scopes can be: the module scope first, then the
\* scopes of blocks and functions in any order
ScopeLists ==
    {s \in UNION {[1..n -> Locations] : n \in 1..MaxScopes} :
         /\ s[1] = [begin |-> 0, end |-> MaxPos]
         /\ \A i, j \in DOMAIN s : Nested(s[i], s[j])}

RECURSIVE findInnermostScopeLastWinsFrom(_, _, _, _)
\* the loop with a comparison that is not strict
findInnermostScopeLastWinsFrom(scopes, location, i, bestScope) ==
    IF i > Len(scopes) THEN bestScope
    ELSE IF /\ encloses(scopes[i], location)
            /\ \/ scopes[i].begin >= scopes[bestScope].begin
               \/ scopes[i].end <= scopes[bestScope].end
         THEN findInnermostScopeLastWinsFrom(scopes, location, i + 1, i)
         ELSE findInnermostScopeLastWinsFrom(scopes, location, i + 1, bestScope)

RECURSIVE findInnermostScopeFrom(_, _, _, _)
\* the loop of findInnermostScope from the entry i on; bestLocation is the
\* span of bestScope
findInnermostScopeFrom(scopes, location, i, bestScope) ==
    IF i > Len(scopes) THEN bestScope
    ELSE IF /\ encloses(scopes[i], location)
            /\ \/ scopes[i].begin > scopes[bestScope].begin
               \/ scopes[i].end < scopes[bestScope].end
         THEN findInnermostScopeFrom(scopes, location, i + 1, i)
         ELSE findInnermostScopeFrom(scopes, location, i + 1, bestScope)

\* a mutant of findInnermostScope: ties go to the last entry
findInnermostScopeLastWins(scopes, location) ==
    findInnermostScopeLastWinsFrom(scopes, location, 1, 1)

\* Scope* TypeChecker2::findInnermostScope(Location location): bestScope
\* starts as the module scope with the span of scopes[0]
findInnermostScope(scopes, location) ==
    findInnermostScopeFrom(scopes, location, 1, 1)

\* a module's scope list and the location of a return statement or of a
\* type annotation in it
ScopeStart ==
    /\ astNode \in [kind : {"FindScope"}, scopes : ScopeLists,
                    location : Locations, result : {0}, visited : {FALSE}]
    /\ call = <<>>
    /\ ast = <<>>
    /\ lookup = <<>>
    /\ errors = <<>>

\* visit(AstStatReturn*), visit(AstType*), visit(AstTypePack*): the scope of
\* the node is looked up
FindScope ==
    /\ part = "scope"
    /\ ~astNode.visited
    /\ astNode' = [astNode EXCEPT
                       !.result = findInnermostScope(astNode.scopes, astNode.location),
                       !.visited = TRUE]
    /\ UNCHANGED <<part, cloneVars, frontendVars, call, ast, lookup, errors>>

NextScope == FindScope

\* the entries of the list whose span encloses the location
Enclosing(scopes, location) ==
    {i \in DOMAIN scopes : encloses(scopes[i], location)}

\* the span a is strictly tighter than the span b
Tighter(a, b) == encloses(b, a) /\ a # b

\* C21: findInnermostScope returns a scope of the list whose span encloses
\* the location and than which no other enclosing scope of the list is
\* strictly tighter, and of the enclosing scopes with that span the one that
\* comes first in the list.
C21_InnermostScope ==
    (part = "scope" /\ astNode.visited) =>
        LET scopes == astNode.scopes
            within == Enclosing(scopes, astNode.location)
            r == astNode.result
        IN  /\ r \in within
            /\ \A i \in within : ~Tighter(scopes[i], scopes[r])
            /\ \A i \in within : scopes[i] = scopes[r] => r <= i

\* the innermost scope was looked up where two scopes of the list have the
\* same tightest span around the location and a wider scope comes after them
C21_Witness ==
    /\ part = "scope"
    /\ astNode.visited
    /\ Len(astNode.scopes) = 4
    /\ astNode.scopes[2] = [begin |-> 1, end |-> 2]
    /\ astNode.scopes[3] = [begin |-> 1, end |-> 2]
    /\ astNode.scopes[4] = [begin |-> 0, end |-> 2]
    /\ astNode.location = [begin |-> 1, end |-> 1]
    /\ astNode.result = 2

----------------------------------------------------------------------------
(***************************************************************************)
(* The validator, TypeChecker2: the scope stack along the walk.  The walk  *)
(* is followed visit by visit: frames are the calls of visit under way,    *)
(* each with its place, the scope its StackPusher holds and the stack it   *)
(* found on entry.  The nodes of the tree are numbered; the root block is  *)
(* node 1 and statement i of it, with its body and the body's statement,   *)
(* are the nodes from StatBase(i) on.                                      *)
(***************************************************************************)
ScopeNames == {"module", "inner"}

\* the statements of the root block: return e, while e do end,
\* while e do return e end, do end, do return e end
StatShapes == {"Return", "While", "WhileReturn", "Block", "BlockReturn"}

StatBase(i) == 3 * i - 1

\* the nodes of statement i of the given shape: node -> kind and children
StatNodes(shape, i) ==
    LET b == StatBase(i)
    IN  CASE shape = "Return" -> (b :> [kind |-> "Return", body |-> <<>>])
          [] shape = "While" ->
                 (b :> [kind |-> "While", body |-> <<b + 1>>])
                 @@ (b + 1 :> [kind |-> "Block", body |-> <<>>])
          [] shape = "WhileReturn" ->
                 (b :> [kind |-> "While", body |-> <<b + 1>>])
                 @@ (b + 1 :> [kind |-> "Block", body |-> <<b + 2>>])
                 @@ (b + 2 :> [kind |-> "Return", body |-> <<>>])
          [] shape = "Block" -> (b :> [kind |-> "Block", body |-> <<>>])
          [] shape = "BlockReturn" ->
                 (b :> [kind |-> "Block", body |-> <<b + 1>>])
                 @@ (b + 1 :> [kind |-> "Return", body |-> <<>>])

RECURSIVE TreeNodes(_, _)
\* sourceModule.root with the statements of the shapes from the i-th on
TreeNodes(shapes, i) ==
    IF i > Len(shapes)
    THEN (1 :> [kind |-> "Block", body |-> [j \in 1..Len(shapes) |-> StatBase(j)]])
    ELSE StatNodes(shapes[i], i) @@ TreeNodes(shapes, i + 1)

\* the trees, and module->astScopes for them: inference gives the root block
\* a scope; any other node has one, its own or one it shares, or none
Trees == {TreeNodes(shapes, 1) : shapes \in SeqsUpTo(StatShapes, MaxStats) \ {<<>>}}

AstScopes(nodes) ==
    {m \in [DOMAIN nodes -> ScopeNames \cup {"none"}] : m[1] = "module"}

\* StackPusher(stack, scope): the scope is pushed
StackPusher(scope, stack) == Append(stack, scope)

\* a mutant of DestroyStackPusher: the scope stays on the stack
DestroyStackPusherKeeps(pusher, stack) == stack

\* ~StackPusher(), of the optional pushStack returned: pop_back when it
\* holds a StackPusher
DestroyStackPusher(pusher, stack) ==
    IF pusher # "none" THEN SubSeq(stack, 1, Len(stack) - 1) ELSE stack

\* a call of visit: fn is the overload, pc the place in it, pusher the
\* scope of its StackPusher, before the stack on entry
Frame(fn, node, stack) ==
    [fn |-> fn, node |-> node, pc |-> 0, pusher |-> "none", before |-> stack]

\* a module after inference; Luau::check has not been called
WalkStart ==
    /\ \E nodes \in Trees : \E m \in AstScopes(nodes) :
           ast = [nodes |-> nodes, astScopes |-> m]
    /\ astNode = [frames |-> <<>>, stack |-> <<>>, checked |-> FALSE]
    /\ call = <<>>
    /\ lookup = <<>>
    /\ errors = <<>>

Top == astNode.frames[Len(astNode.frames)]

Callers == SubSeq(astNode.frames, 1, Len(astNode.frames) - 1)

\* the frames with the top one moved to the place pc and with pusher
AtPc(pc, pusher) ==
    Append(Callers, [Top EXCEPT !.pc = pc, !.pusher = pusher])

WalkUnchanged == UNCHANGED <<part, cloneVars, frontendVars, call, ast, lookup, errors>>

\* Luau::check: typeChecker.visit(sourceModule.root)
CheckBegins ==
    /\ part = "walk"
    /\ ~astNode.checked /\ astNode.frames = <<>>
    /\ astNode' = [astNode EXCEPT !.frames = <<Frame("visitBlock", 1, astNode.stack)>>]
    /\ WalkUnchanged

\* pushStack(node) at the head of visit(AstStat*) and visit(AstStatBlock*)
PushStack ==
    /\ part = "walk"
    /\ astNode.frames # <<>>
    /\ Top.fn \in {"visitStat", "visitBlock"} /\ Top.pc = 0
    /\ LET scope == ast.astScopes[Top.node]
       IN  astNode' = [astNode EXCEPT
                          !.stack = IF scope # "none" THEN StackPusher(scope, @) ELSE @,
                          !.frames = AtPc(1, scope)]
    /\ WalkUnchanged

\* visit(AstStat*) calls the visit of the statement's class
DispatchStat ==
    /\ part = "walk"
    /\ astNode.frames # <<>>
    /\ Top.fn = "visitStat" /\ Top.pc = 1
    /\ LET fn == CASE ast.nodes[Top.node].kind = "Block" -> "visitBlock"
                   [] ast.nodes[Top.node].kind = "While" -> "visitWhile"
                   [] ast.nodes[Top.node].kind = "Return" -> "visitReturn"
       IN  astNode' = [astNode EXCEPT
                          !.frames = Append(AtPc(2, Top.pusher),
                                            Frame(fn, Top.node, astNode.stack))]
    /\ WalkUnchanged

\* visit(AstStatBlock*) calls visit(AstStat*) for its next statement
VisitStatement ==
    /\ part = "walk"
    /\ astNode.frames # <<>>
    /\ Top.fn = "visitBlock"
    /\ Top.pc \in 1..Len(ast.nodes[Top.node].body)
    /\ astNode' = [astNode EXCEPT
                      !.frames = Append(AtPc(Top.pc + 1, Top.pusher),
                                        Frame("visitStat", ast.nodes[Top.node].body[Top.pc],
                                              astNode.stack))]
    /\ WalkUnchanged

\* visit(AstStatWhile*) calls visit(AstStatBlock*) for the body
VisitBody ==
    /\ part = "walk"
    /\ astNode.frames # <<>>
    /\ Top.fn = "visitWhile" /\ Top.pc = 0
    /\ astNode' = [astNode EXCEPT
                      !.frames = Append(AtPc(1, "none"),
                                        Frame("visitBlock", ast.nodes[Top.node].body[1],
                                              astNode.stack))]
    /\ WalkUnchanged

\* visit(AstStatReturn*) reads stack.back() for its Unifier; back() of an
\* empty vector is undefined, and any stack may be what is left
ReadBack ==
    /\ part = "walk"
    /\ astNode.frames # <<>>
    /\ Top.fn = "visitReturn" /\ Top.pc = 0
    /\ \E left \in IF astNode.stack # <<>> THEN {astNode.stack}
                    ELSE SeqsUpTo(ScopeNames, 1) :
           astNode' = [astNode EXCEPT !.stack = left, !.frames = AtPc(1, "none")]
    /\ WalkUnchanged

\* a visit returns: its pusher, if it has one, is destroyed
VisitReturns ==
    /\ part = "walk"
    /\ astNode.frames # <<>>
    /\ \/ Top.fn = "visitStat" /\ Top.pc = 2
       \/ Top.fn = "visitBlock" /\ Top.pc = Len(ast.nodes[Top.node].body) + 1
       \/ Top.fn \in {"visitWhile", "visitReturn"} /\ Top.pc = 1
    /\ astNode' = [astNode EXCEPT
                      !.stack = DestroyStackPusher(Top.pusher, @),
                      !.frames = Callers,
                      !.checked = Len(astNode.frames) = 1]
    /\ WalkUnchanged

NextWalk ==
    \/ CheckBegins \/ PushStack \/ DispatchStat \/ VisitStatement \/ VisitBody
    \/ ReadBack \/ VisitReturns

\* the step is the destruction of a StackPusher that holds a scope
Pops(frame) ==
    /\ astNode.frames # <<>> /\ frame = Top
    /\ Len(astNode'.frames) < Len(astNode.frames)
    /\ frame.pusher # "none"

\* the step is the return of a visit
Leaves(frame) ==
    /\ astNode.frames # <<>> /\ frame = Top
    /\ Len(astNode'.frames) < Len(astNode.frames)

\* C30: the scope stack is kept in LIFO discipline: a StackPusher pops the
\* very scope it pushed (stack->back() == scope at the pop), the stack
\* after the visit of a node is the stack before it, and with a scope for
\* the root block the stack is not empty where stack.back() is read.
C30_Step ==
    part = "walk" /\ astNode.frames # <<>> =>
        /\ Pops(Top) =>
               /\ astNode.stack # <<>>
               /\ astNode.stack[Len(astNode.stack)] = Top.pusher
        /\ Leaves(Top) => astNode'.stack = Top.before
        /\ Top.fn = "visitReturn" /\ Top.pc = 0 => astNode.stack # <<>>

----------------------------------------------------------------------------
\* the validator's variables while another part is at work
ValidatorIdle ==
    /\ call = <<>>
    /\ ast = <<>>
    /\ lookup = <<>>
    /\ astNode = <<>>
    /\ errors = <<>>

CallInit == part = "call" /\ CallStart /\ CloneIdle /\ FrontendIdle

VisitInit == part = "visit" /\ VisitStart /\ CloneIdle /\ FrontendIdle

LookupInit == part = "lookup" /\ LookupStart /\ CloneIdle /\ FrontendIdle

NodeInit == part = "node" /\ NodeStart /\ CloneIdle /\ FrontendIdle

ScopeInit == part = "scope" /\ ScopeStart /\ CloneIdle /\ FrontendIdle

FamilyInit == part = "family" /\ FamilyStart /\ CloneIdle /\ FrontendIdle

WalkInit == part = "walk" /\ WalkStart /\ CloneIdle /\ FrontendIdle

CloneInit == part = "clone" /\ CloneStart /\ FrontendIdle /\ ValidatorIdle

FrontendInit == part = "frontend" /\ FrontendStart /\ CloneIdle /\ ValidatorIdle

QueueInit == part = "queue" /\ FrontendStart /\ CloneIdle /\ ValidatorIdle

Init ==
    \/ CloneInit \/ FrontendInit \/ QueueInit \/ CallInit \/ VisitInit
    \/ LookupInit \/ NodeInit \/ ScopeInit \/ FamilyInit
    \/ WalkInit

Next ==
    \/ NextClone \/ NextQueue \/ NextCall \/ NextVisit \/ NextLookup
    \/ NextNode \/ NextScope \/ NextFamily
    \/ NextWalk

Spec == Init /\ [][Next]_vars

SpecClone == CloneInit /\ [][NextClone]_vars

SpecFrontend == FrontendInit /\ [][NextFrontend]_vars

SpecQueue == QueueInit /\ [][NextQueue]_vars

SpecCall == CallInit /\ [][NextCall]_vars

SpecVisit == VisitInit /\ [][NextVisit]_vars

SpecLookup == LookupInit /\ [][NextLookup]_vars

SpecNode == NodeInit /\ [][NextNode]_vars

SpecScope == ScopeInit /\ [][NextScope]_vars

SpecFamily == FamilyInit /\ [][NextFamily]_vars

SpecWalk == WalkInit /\ [][NextWalk]_vars

====
